---- MODULE Spec2Model ----
(***************************************************************************)
(* A model of chaoleme: the metric store (storage/sqlite.go), the CPU      *)
(* sampler (collector/cpu.go), the statistics helpers and the baseline     *)
(* comparison of the analyzer (analyzer/score.go) and the daemon loop      *)
(* (main.go).                                                              *)
(*                                                                         *)
(* Time.  A time.Time is an integer number of clock units; SubSec units    *)
(* make one second and SecPerDay seconds make one day.  Unix() drops the   *)
(* sub-second part, exactly as Time.Unix() does.                           *)
(***************************************************************************)
EXTENDS Integers, Sequences, FiniteSets, TLC

(***************************************************************************)
(* Bounds of the model.                                                    *)
(***************************************************************************)
SubSec == 2
SecPerDay == 1
MaxSaveTime == 3
MaxRows == 2
MaxRetentionDays == 1
MaxNow == (MaxRetentionDays * SecPerDay + 2) * SubSec - 1

MaxCounter == 2
Uint64Wrap == 16
MaxLen == 3
MaxValue == 3
MaxSampleTicks == 1

VARIABLES
    rows,       \* the metrics table: a set of rows
    nextId,     \* the AUTOINCREMENT counter of the table
    now,        \* the wall clock, time.Now()
    lastOp,     \* the last call made on the Storage and what it returned
    saved,      \* history: the Extra handed to each successful Save, by row id
    procStat,   \* the kernel's cumulative "cpu" line of /proc/stat
    lastStats,  \* CPUCollector.lastStats
    cpuCall,    \* the last CPUCollector.Collect: what it returned
    pvals,      \* the caller's slice handed to percentile
    pCall,      \* the last call of percentile: its arguments and its result
    baseCall,   \* the last calculateBaselineDeviation: its argument and results
    scoreCall,  \* the last calculateScore: its argument and what it computed
    analysis,   \* the last AnalyzePeriod: its arguments and results
    reportCall, \* the last generateReport or sendScheduledReport
    pc,         \* where runDaemon is: "start", "loop" or "exited"
    due,        \* the tickers whose channel holds an unreceived tick
    started,    \* the time at which runDaemon created its tickers
    retention,  \* cfg.Storage.RetentionDays
    born,       \* for each saved row, the time.Now() its sample carried
    loop,       \* what the goroutine of runDaemon is running
    goroutines, \* the goroutines started with go sendScheduledReport
    logged,     \* the collectors whose failure the last handler logged
    sched,      \* the report schedule: wall clock, last*Report, dispatches
    diskCall    \* the last call of a DiskCollector function: inputs and result

storeVars == <<rows, nextId, now, lastOp, saved>>

cpuVars == <<procStat, lastStats, cpuCall>>

statVars == <<pvals, pCall>>

baseVars == <<baseCall, scoreCall, analysis, reportCall>>

auxVars == <<logged, sched, diskCall>>

loopVars == <<loop, goroutines, auxVars>>

daemonVars == <<pc, due, started, retention, born, loopVars>>

vars == <<rows, nextId, now, lastOp, saved, procStat, lastStats, cpuCall,
          pvals, pCall, baseCall, scoreCall, analysis, reportCall,
          pc, due, started, retention, born, loop, goroutines, logged, sched,
          diskCall>>

notStoreVars == <<cpuVars, statVars, baseVars, daemonVars>>

notCpuVars == <<storeVars, statVars, baseVars, daemonVars>>

notStatVars == <<storeVars, cpuVars, baseVars, daemonVars>>

notBaseVars == <<storeVars, cpuVars, statVars, daemonVars>>

(***************************************************************************)
(* float64 values are modelled as exact fractions [n, d] in lowest terms   *)
(* with d > 0.                                                             *)
(***************************************************************************)
RECURSIVE Gcd(_, _)
Gcd(a, b) == IF b = 0 THEN a ELSE Gcd(b, a % b)

Abs(x) == IF x < 0 THEN -x ELSE x

Rat(n, d) ==
    LET g == Gcd(Abs(n), Abs(d))
        sgn == IF d < 0 THEN -1 ELSE 1
    IN  [n |-> sgn * (n \div g), d |-> sgn * (d \div g)]

Float(i) == [n |-> i, d |-> 1]

FAdd(x, y) == Rat(x.n * y.d + y.n * x.d, x.d * y.d)

FSub(x, y) == Rat(x.n * y.d - y.n * x.d, x.d * y.d)

FMul(x, y) == Rat(x.n * y.n, x.d * y.d)

FDiv(x, y) == Rat(x.n * y.d, x.d * y.n)

FLess(x, y) == x.n * y.d < y.n * x.d

FLeq(x, y) == x.n * y.d <= y.n * x.d

(***************************************************************************)
(* storage.MetricType                                                      *)
(***************************************************************************)
MetricTypeCPUSteal == "cpu_steal"
MetricTypeCPUIoWait == "cpu_iowait"
MetricTypeCPUBench == "cpu_bench"
MetricTypeIOLatency == "io_latency"
MetricTypeDiskStats == "disk_stats"
MetricTypeRandomIO == "random_io"
MetricTypeMemory == "memory"
MetricTypeCPULoad == "cpu_load"

MetricTypes ==
    { MetricTypeCPUSteal, MetricTypeCPUIoWait, MetricTypeCPUBench,
      MetricTypeIOLatency, MetricTypeDiskStats, MetricTypeRandomIO,
      MetricTypeMemory, MetricTypeCPULoad }

(***************************************************************************)
(* time.Time helpers.                                                      *)
(***************************************************************************)
Unix(t) == t \div SubSec

TimeUnix(sec) == sec * SubSec

AddDate(t, days) == t + days * SecPerDay * SubSec

(***************************************************************************)
(* Metric.Extra is a map[string]interface{}: nil, or a set of entries      *)
(* [k, t, v] with one entry per key, t the dynamic Go type of the value    *)
(* and v the number it holds.                                              *)
(***************************************************************************)
NilExtra == [nil |-> TRUE, kv |-> {}]

MakeExtra(entries) == [nil |-> FALSE, kv |-> entries]

(***************************************************************************)
(* encoding/json on a map[string]interface{}.  A JSON number carries the   *)
(* digits of the value and nothing of its Go type; decoding into an        *)
(* interface{} yields a float64 for every JSON number.                     *)
(***************************************************************************)
Marshal(extra) == [empty |-> FALSE,
                   members |-> {[k |-> e.k, lit |-> e.v] : e \in extra.kv}]

EmptyText == [empty |-> TRUE, members |-> {}]

Unmarshal(text) ==
    MakeExtra({[k |-> m.k, t |-> "float64", v |-> m.lit] : m \in text.members})

(***************************************************************************)
(* The value bound to the extra column by Save: string(extraJSON), which   *)
(* is "" when m.Extra is nil.                                              *)
(***************************************************************************)
ExtraColumn(extra) == IF extra.nil THEN EmptyText ELSE Marshal(extra)

(***************************************************************************)
(* rows.Scan followed by the conversions of Query / GetLatestMetric.       *)
(***************************************************************************)
ScanRow(r) ==
    [ID |-> r.id,
     Timestamp |-> TimeUnix(r.timestamp),
     Type |-> r.metric_type,
     Value |-> r.value,
     Extra |-> IF ~r.extra.empty THEN Unmarshal(r.extra) ELSE NilExtra]

(***************************************************************************)
(* SELECT ... WHERE metric_type = ? AND timestamp >= ? AND timestamp <= ?  *)
(***************************************************************************)
SelectRangeOpenEnd(db, metricType, start, end) ==
    {r \in db : /\ r.metric_type = metricType
                /\ r.timestamp >= Unix(start)
                /\ r.timestamp < Unix(end)}

SelectRange(db, metricType, start, end) ==
    {r \in db : /\ r.metric_type = metricType
                /\ r.timestamp >= Unix(start)
                /\ r.timestamp <= Unix(end)}

(***************************************************************************)
(* ORDER BY timestamp ASC: every enumeration of the selected rows with     *)
(* non-decreasing timestamps.  SQL leaves the order of rows with equal     *)
(* timestamps to the engine.                                               *)
(***************************************************************************)
OrderByTimestampAsc(S) ==
    {s \in [1..Cardinality(S) -> S] :
        /\ \A i, j \in 1..Cardinality(S) : i # j => s[i] # s[j]
        /\ \A i, j \in 1..Cardinality(S) :
              i < j => s[i].timestamp <= s[j].timestamp}

(***************************************************************************)
(* The results Query may return on a healthy database.                     *)
(***************************************************************************)
QueryResults(db, metricType, start, end) ==
    {[i \in DOMAIN s |-> ScanRow(s[i])] :
        s \in OrderByTimestampAsc(SelectRange(db, metricType, start, end))}

(***************************************************************************)
(* DELETE FROM metrics WHERE timestamp < cutoff                            *)
(***************************************************************************)
CleanupCutoffNextSecond(t, retentionDays) == Unix(AddDate(t, -retentionDays)) + 1

CleanupCutoff(t, retentionDays) == Unix(AddDate(t, -retentionDays))

CleanupDeletesThroughCutoff(db, cutoff) == {r \in db : r.timestamp <= cutoff}

CleanupDeletesOneRow(db, cutoff) ==
    IF {r \in db : r.timestamp < cutoff} = {}
       THEN {}
       ELSE {CHOOSE r \in db : r.timestamp < cutoff}

CleanupDeletes(db, cutoff) == {r \in db : r.timestamp < cutoff}

(***************************************************************************)
(* ... WHERE metric_type = ? ORDER BY timestamp DESC LIMIT 1               *)
(***************************************************************************)
OldestRows(db, metricType) ==
    {r \in db : /\ r.metric_type = metricType
                /\ \A q \in db : q.metric_type = metricType
                                    => q.timestamp >= r.timestamp}

LatestRows(db, metricType) ==
    {r \in db : /\ r.metric_type = metricType
                /\ \A q \in db : q.metric_type = metricType
                                    => q.timestamp <= r.timestamp}

(***************************************************************************)
(* The record of the last call on the Storage: its name and arguments, the *)
(* Metric sequence, the count and the error it returned, and prev: the     *)
(* call made just before it when that was a Cleanup that succeeded (its    *)
(* argument and its cutoff).                                               *)
(***************************************************************************)
NoCall == [op |-> "none", rdays |-> 0, cutoff |-> 0]

NoOp == [op |-> "none", prev |-> NoCall,
         mtype |-> "", start |-> 0, end |-> 0, rdays |-> 0, cutoff |-> 0,
         res |-> <<>>, deleted |-> 0, err |-> FALSE]

PrevCleanup ==
    IF lastOp.op = "Cleanup" /\ ~lastOp.err
       THEN [op |-> "Cleanup", rdays |-> lastOp.rdays, cutoff |-> lastOp.cutoff]
       ELSE NoCall

Call(op) == [NoOp EXCEPT !.op = op,
                         !.prev = IF op = "Cleanup" THEN PrevCleanup ELSE NoCall]

(***************************************************************************)
(* Inputs of the store operations.                                         *)
(***************************************************************************)
StoreTypes == {MetricTypeCPUSteal, MetricTypeDiskStats}

StoreValues == {Float(3)}

StoreExtras ==
    { NilExtra,
      MakeExtra({[k |-> "write_latency_ms", t |-> "float64", v |-> 2]}),
      MakeExtra({[k |-> "read_ops", t |-> "uint64", v |-> 2]}) }

StoreTimes == 0..MaxSaveTime

QueryTimes == {SubSec - 1, SubSec}

StoreMetrics ==
    [ID : {0}, Timestamp : StoreTimes, Type : StoreTypes,
     Value : StoreValues, Extra : StoreExtras]

(***************************************************************************)
(* Storage.Save                                                            *)
(***************************************************************************)
InsertOrReplaceRow(db, id, m) ==
    {r \in db : r.metric_type # m.Type \/ r.timestamp # Unix(m.Timestamp)}
        \cup {[id |-> id,
                timestamp |-> Unix(m.Timestamp),
                metric_type |-> m.Type,
                value |-> m.Value,
                extra |-> ExtraColumn(m.Extra)]}

InsertRow(db, id, m) ==
    db \cup {[id |-> id,
              timestamp |-> Unix(m.Timestamp),
              metric_type |-> m.Type,
              value |-> m.Value,
              extra |-> ExtraColumn(m.Extra)]}

(***************************************************************************)
(* The rows after saving the metrics of ms one after the other.            *)
(***************************************************************************)
RECURSIVE SaveAll(_, _, _)
SaveAll(db, id, ms) ==
    IF ms = <<>>
       THEN db
       ELSE SaveAll(InsertRow(db, id, ms[1]), id + 1, Tail(ms))

Save(m, dbOk) ==
    /\ nextId <= MaxRows
    /\ IF dbOk
          THEN /\ rows' = InsertRow(rows, nextId, m)
               /\ nextId' = nextId + 1
               /\ saved' = saved \cup {[id |-> nextId, extra |-> m.Extra]}
          ELSE UNCHANGED <<rows, nextId, saved>>
    /\ lastOp' = [Call("Save") EXCEPT !.mtype = m.Type, !.err = ~dbOk]
    /\ UNCHANGED <<now, notStoreVars>>

(***************************************************************************)
(* Storage.Query                                                           *)
(***************************************************************************)
Query(metricType, start, end, dbOk) ==
    /\ IF dbOk
          THEN \E res \in QueryResults(rows, metricType, start, end) :
                  lastOp' = [Call("Query") EXCEPT !.mtype = metricType,
                                !.start = start, !.end = end, !.res = res]
          ELSE lastOp' = [Call("Query") EXCEPT !.mtype = metricType,
                                !.start = start, !.end = end, !.err = TRUE]
    /\ UNCHANGED <<rows, nextId, now, saved, notStoreVars>>

(***************************************************************************)
(* Storage.Cleanup                                                         *)
(***************************************************************************)
Cleanup(retentionDays, dbOk) ==
    LET cutoff == CleanupCutoff(now, retentionDays)
        gone == CleanupDeletes(rows, cutoff)
    IN  /\ IF dbOk
              THEN /\ rows' = rows \ gone
                   /\ lastOp' = [Call("Cleanup") EXCEPT
                                    !.rdays = retentionDays,
                                    !.cutoff = cutoff,
                                    !.deleted = Cardinality(gone)]
              ELSE /\ rows' = rows
                   /\ lastOp' = [Call("Cleanup") EXCEPT
                                    !.rdays = retentionDays,
                                    !.cutoff = cutoff,
                                    !.err = TRUE]
        /\ UNCHANGED <<nextId, now, saved, notStoreVars>>

(***************************************************************************)
(* Storage.GetLatestMetric                                                 *)
(***************************************************************************)
GetLatestMetric(metricType, dbOk) ==
    /\ IF ~dbOk
          THEN lastOp' = [Call("GetLatestMetric") EXCEPT
                             !.mtype = metricType, !.err = TRUE]
          ELSE IF LatestRows(rows, metricType) = {}
                  THEN lastOp' = [Call("GetLatestMetric") EXCEPT
                                     !.mtype = metricType]
                  ELSE \E r \in LatestRows(rows, metricType) :
                          lastOp' = [Call("GetLatestMetric") EXCEPT
                                        !.mtype = metricType,
                                        !.res = <<ScanRow(r)>>]
    /\ UNCHANGED <<rows, nextId, now, saved, notStoreVars>>

(***************************************************************************)
(* The clock advances between calls.                                       *)
(***************************************************************************)
Tick ==
    /\ now < MaxNow
    /\ now' = now + 1
    /\ UNCHANGED <<rows, nextId, lastOp, saved, notStoreVars>>

(***************************************************************************)
(* The goroutine of runDaemon: at is the code it runs ("select" when it    *)
(* waits in the select statement) and collecting is the number of calls of *)
(* cpu.Collect in progress.                                                *)
(***************************************************************************)
InSelect == [at |-> "select", collecting |-> 0]

(***************************************************************************)
(* The report schedule of runDaemon.  A time.Time is the number of minutes *)
(* since the zero time.Time (January 1 of year 1, 00:00), which is 0.      *)
(* sent holds, for each type, the time of the last report of the type the  *)
(* run has started, if any.                                                *)
(***************************************************************************)
ReportKinds == {"daily", "weekly", "monthly"}

NoReportConfig ==
    [Daily |-> FALSE, Weekly |-> FALSE, Monthly |-> FALSE,
     Hour |-> 0, Minute |-> 0, WeeklyDay |-> 0, MonthlyDay |-> 1]

NoSchedule ==
    [op |-> "none", cfg |-> NoReportConfig, now |-> 0, tick |-> FALSE,
     lastDailyReport |-> 0, lastWeeklyReport |-> 0, lastMonthlyReport |-> 0,
     sent |-> [k \in ReportKinds |-> {}], started |-> {}]

NoDiskStats ==
    [ReadOps |-> 0, WriteOps |-> 0, ReadBytes |-> 0, WriteBytes |-> 0,
     IOTimeMs |-> 0, WeightedIOMs |-> 0]

NoDiskCall ==
    [op |-> "none", table |-> {}, stats |-> NoDiskStats,
     mounts |-> {}, exists |-> {}, dir |-> <<>>]

LoopIdle ==
    /\ loop = InSelect
    /\ goroutines = {}
    /\ logged = {}
    /\ sched = NoSchedule
    /\ diskCall = NoDiskCall

RunIdle ==
    /\ pc = "none"
    /\ due = {}
    /\ started = 0
    /\ retention = 0
    /\ born = {}
    /\ loop = InSelect
    /\ goroutines = {}
    /\ logged = {}
    /\ sched = NoSchedule

DaemonIdle ==
    /\ RunIdle
    /\ diskCall = NoDiskCall

StoreIdle ==
    /\ rows = {}
    /\ nextId = 1
    /\ now = 0
    /\ lastOp = NoOp
    /\ saved = {}

Next ==
    \/ Tick
    \/ \E m \in StoreMetrics, dbOk \in BOOLEAN : Save(m, dbOk)
    \/ \E t \in StoreTypes, s \in QueryTimes, e \in QueryTimes,
          dbOk \in BOOLEAN : Query(t, s, e, dbOk)
    \/ \E d \in 0..MaxRetentionDays, dbOk \in BOOLEAN : Cleanup(d, dbOk)
    \/ \E t \in StoreTypes, dbOk \in BOOLEAN : GetLatestMetric(t, dbOk)

(***************************************************************************)
(* collector.CPUStats and its Total().  uint64 arithmetic wraps.           *)
(***************************************************************************)
CPUFields ==
    {"User", "Nice", "System", "Idle", "IOWait", "IRQ", "SoftIRQ", "Steal",
     "Guest", "GuestNice"}

ZeroStats == [f \in CPUFields |-> 0]

U64Add(a, b) == (a + b) % Uint64Wrap

U64Sub(a, b) == (a - b + Uint64Wrap) % Uint64Wrap

Total(s) ==
    U64Add(U64Add(U64Add(U64Add(U64Add(U64Add(U64Add(U64Add(U64Add(
        s.User, s.Nice), s.System), s.Idle), s.IOWait), s.IRQ), s.SoftIRQ),
        s.Steal), s.Guest), s.GuestNice)

(***************************************************************************)
(* The kernel adds jiffies to its cumulative counters.                     *)
(***************************************************************************)
KernelFields == {"Idle", "IOWait", "Steal"}

KernelSteps(s) ==
    {[s EXCEPT ![f] = s[f] + 1] : f \in {g \in KernelFields : s[g] < MaxCounter}}

KernelAdvance ==
    /\ \E s \in KernelSteps(procStat) : procStat' = s
    /\ UNCHANGED <<lastStats, cpuCall, notCpuVars>>

(***************************************************************************)
(* CPUCollector: lastStats is nil (NoStats) until the first Collect.       *)
(***************************************************************************)
NoStats == [nil |-> TRUE, s |-> ZeroStats]

SomeStats(s) == [nil |-> FALSE, s |-> s]

NoUsage == [StealPercent |-> Float(0), IOWaitPercent |-> Float(0)]

NoCollect == [op |-> "none", err |-> FALSE, usage |-> NoUsage, first |-> FALSE,
              reads |-> <<>>]

(***************************************************************************)
(* The arithmetic of Collect on the held snapshot and the current one.     *)
(***************************************************************************)
UsageSinceBoot(last, current) ==
    LET totalDelta == Total(current)
        stealDelta == current.Steal
        iowaitDelta == current.IOWait
    IN  IF totalDelta = 0
           THEN NoUsage
           ELSE [StealPercent |->
                    FMul(FDiv(Float(stealDelta), Float(totalDelta)), Float(100)),
                 IOWaitPercent |->
                    FMul(FDiv(Float(iowaitDelta), Float(totalDelta)), Float(100))]

Usage(last, current) ==
    LET totalDelta == U64Sub(Total(current), Total(last))
        stealDelta == U64Sub(current.Steal, last.Steal)
        iowaitDelta == U64Sub(current.IOWait, last.IOWait)
    IN  IF totalDelta = 0
           THEN NoUsage
           ELSE [StealPercent |->
                    FMul(FDiv(Float(stealDelta), Float(totalDelta)), Float(100)),
                 IOWaitPercent |->
                    FMul(FDiv(Float(iowaitDelta), Float(totalDelta)), Float(100))]

(***************************************************************************)
(* CPUCollector.Collect.  ok1 and ok2 tell whether the first and the       *)
(* second readCPUStats succeed; slept is the kernel's counters after the   *)
(* 100 ms sleep of a first call.  The outcome is the new lastStats, the    *)
(* kernel counters after the call and the record of the call, with the     *)
(* snapshots readCPUStats returned to it (reads).                          *)
(***************************************************************************)
CollectOutcomeKeepingFirstReading(last, stat, ok1, ok2, slept) ==
    IF ~ok1
       THEN [lastStats |-> last, procStat |-> stat,
             call |-> [NoCollect EXCEPT !.op = "Collect", !.err = TRUE,
                                        !.first = last.nil]]
       ELSE IF last.nil
               THEN IF ~ok2
                       THEN [lastStats |-> SomeStats(stat), procStat |-> slept,
                             call |-> [NoCollect EXCEPT !.op = "Collect",
                                          !.err = TRUE, !.first = TRUE,
                                          !.reads = <<stat>>]]
                       ELSE [lastStats |-> SomeStats(stat), procStat |-> slept,
                             call |-> [op |-> "Collect", err |-> FALSE,
                                       usage |-> Usage(stat, slept),
                                       first |-> TRUE, reads |-> <<stat, slept>>]]
               ELSE [lastStats |-> SomeStats(stat), procStat |-> stat,
                     call |-> [op |-> "Collect", err |-> FALSE,
                               usage |-> Usage(last.s, stat),
                               first |-> FALSE, reads |-> <<stat>>]]

CollectOutcome(last, stat, ok1, ok2, slept) ==
    IF ~ok1
       THEN [lastStats |-> last, procStat |-> stat,
             call |-> [NoCollect EXCEPT !.op = "Collect", !.err = TRUE,
                                        !.first = last.nil]]
       ELSE IF last.nil
               THEN IF ~ok2
                       THEN [lastStats |-> SomeStats(stat), procStat |-> slept,
                             call |-> [NoCollect EXCEPT !.op = "Collect",
                                          !.err = TRUE, !.first = TRUE,
                                          !.reads = <<stat>>]]
                       ELSE [lastStats |-> SomeStats(slept), procStat |-> slept,
                             call |-> [op |-> "Collect", err |-> FALSE,
                                       usage |-> Usage(stat, slept),
                                       first |-> TRUE, reads |-> <<stat, slept>>]]
               ELSE [lastStats |-> SomeStats(stat), procStat |-> stat,
                     call |-> [op |-> "Collect", err |-> FALSE,
                               usage |-> Usage(last.s, stat),
                               first |-> FALSE, reads |-> <<stat>>]]

Collect(ok1, ok2, slept) ==
    LET out == CollectOutcome(lastStats, procStat, ok1, ok2, slept)
    IN  /\ lastStats' = out.lastStats
        /\ procStat' = out.procStat
        /\ cpuCall' = out.call
        /\ UNCHANGED notCpuVars

CpuIdle ==
    /\ procStat = ZeroStats
    /\ lastStats = NoStats
    /\ cpuCall = NoCollect

(***************************************************************************)
(* The helpers of the analyzer: extractValues, avg, max, percentile.       *)
(***************************************************************************)
extractValues(metrics) == [i \in DOMAIN metrics |-> metrics[i].Value]

RECURSIVE SumFloats(_)
SumFloats(values) ==
    IF values = <<>>
       THEN Float(0)
       ELSE FAdd(values[1], SumFloats(Tail(values)))

avg(values) ==
    IF Len(values) = 0
       THEN Float(0)
       ELSE FDiv(SumFloats(values), Float(Len(values)))

RECURSIVE MaxFrom(_, _)
MaxFrom(m, rest) ==
    IF rest = <<>>
       THEN m
       ELSE MaxFrom(IF FLess(m, rest[1]) THEN rest[1] ELSE m, Tail(rest))

max(values) ==
    IF Len(values) = 0 THEN Float(0) ELSE MaxFrom(values[1], Tail(values))

(***************************************************************************)
(* sort.Float64s: insertion of each element into an ascending sequence.    *)
(***************************************************************************)
RECURSIVE InsertSorted(_, _)
InsertSorted(x, sorted) ==
    IF sorted = <<>>
       THEN <<x>>
       ELSE IF FLeq(x, sorted[1])
               THEN <<x>> \o sorted
               ELSE <<sorted[1]>> \o InsertSorted(x, Tail(sorted))

RECURSIVE SortFloat64s(_)
SortFloat64s(values) ==
    IF values = <<>>
       THEN <<>>
       ELSE InsertSorted(values[1], SortFloat64s(Tail(values)))

(***************************************************************************)
(* math.Ceil followed by int().                                            *)
(***************************************************************************)
Ceil(x) == -((-x.n) \div x.d)

(***************************************************************************)
(* percentile(values, p): the result and the caller's slice afterwards.    *)
(***************************************************************************)
PercentileIndex(n, p) ==
    LET index == Ceil(FMul(FDiv(p, Float(100)), Float(n))) - 1
    IN  IF index < 0 THEN 0 ELSE IF index >= n THEN n - 1 ELSE index

percentileSortingInPlace(values, p) ==
    IF Len(values) = 0
       THEN [result |-> Float(0), values |-> values]
       ELSE LET sorted == SortFloat64s(values)
            IN  [result |-> sorted[PercentileIndex(Len(sorted), p) + 1],
                 values |-> sorted]

percentile(values, p) ==
    IF Len(values) = 0
       THEN [result |-> Float(0), values |-> values]
       ELSE LET sorted == SortFloat64s(values)
            IN  [result |-> sorted[PercentileIndex(Len(sorted), p) + 1],
                 values |-> values]

NoPercentile == [op |-> "none", p |-> Float(0), input |-> <<>>,
                 result |-> Float(0)]

CallPercentile(p) ==
    /\ pCall' = [op |-> "percentile", p |-> p, input |-> pvals,
                 result |-> percentile(pvals, p).result]
    /\ pvals' = percentile(pvals, p).values
    /\ UNCHANGED notStatVars

StatIdle ==
    /\ pvals = <<>>
    /\ pCall = NoPercentile

(***************************************************************************)
(* calculateBaselineDeviation                                              *)
(***************************************************************************)
BaselineDays == 7
MinBaselineSamples == 10

(***************************************************************************)
(* One of QueryResults: the selected rows by timestamp, rows of the same   *)
(* second by id.  The analyzer below uses the number of rows and their     *)
(* mean, which are the same for every element of QueryResults.             *)
(***************************************************************************)
RECURSIVE RowsInOrder(_)
RowsInOrder(S) ==
    IF S = {}
       THEN <<>>
       ELSE LET r == CHOOSE r \in S :
                        \A q \in S : \/ r.timestamp < q.timestamp
                                     \/ /\ r.timestamp = q.timestamp
                                        /\ r.id <= q.id
            IN  <<r>> \o RowsInOrder(S \ {r})

QueryInOrder(db, metricType, start, end) ==
    LET s == RowsInOrder(SelectRange(db, metricType, start, end))
    IN  [i \in DOMAIN s |-> ScanRow(s[i])]

(***************************************************************************)
(* a.store.Query with the error discarded: a failed query leaves nil.      *)
(***************************************************************************)
QueryOrNil(db, metricType, start, end, dbOk) ==
    IF dbOk THEN QueryInOrder(db, metricType, start, end) ELSE <<>>

DeviationAsFraction(current, baseline) ==
    IF Len(baseline) > 0 /\ FLess(Float(0), avg(extractValues(baseline)))
       THEN LET baselineAvg == avg(extractValues(baseline))
            IN  <<FDiv(FSub(current, baselineAvg), baselineAvg)>>
       ELSE <<>>

Deviation(current, baseline) ==
    IF Len(baseline) > 0 /\ FLess(Float(0), avg(extractValues(baseline)))
       THEN LET baselineAvg == avg(extractValues(baseline))
            IN  <<FMul(FDiv(FSub(current, baselineAvg), baselineAvg), Float(100))>>
       ELSE <<>>

TooFewCombined(baselineSteal, baselineIO) ==
    Len(baselineSteal) + Len(baselineIO) < MinBaselineSamples

TooFew(baselineSteal, baselineIO) ==
    Len(baselineSteal) < MinBaselineSamples /\ Len(baselineIO) < MinBaselineSamples

calculateBaselineDeviation(stats, db, okSteal, okIO, okLoad) ==
    LET baselineEnd   == stats.StartTime
        baselineStart == AddDate(baselineEnd, -BaselineDays)
        baselineSteal == QueryOrNil(db, MetricTypeCPUSteal, baselineStart, baselineEnd, okSteal)
        baselineIO    == QueryOrNil(db, MetricTypeIOLatency, baselineStart, baselineEnd, okIO)
        baselineLoad  == QueryOrNil(db, MetricTypeCPULoad, baselineStart, baselineEnd, okLoad)
        deviations    == Deviation(stats.CPUStealAvg, baselineSteal)
                            \o Deviation(stats.IOLatencyAvg, baselineIO)
                            \o Deviation(stats.CPULoadAvg, baselineLoad)
        totalDeviation == IF Len(deviations) > 0
                             THEN FDiv(SumFloats(deviations), Float(Len(deviations)))
                             ELSE Float(0)
        status == IF FLess(Float(10), totalDeviation) THEN "degrading"
                  ELSE IF FLess(totalDeviation, Float(-10)) THEN "improving"
                  ELSE "stable"
    IN  IF TooFew(baselineSteal, baselineIO)
           THEN [deviation |-> Float(0), status |-> "stable"]
           ELSE [deviation |-> IF FLess(totalDeviation, Float(0))
                                  THEN FSub(Float(0), totalDeviation)
                                  ELSE totalDeviation,
                 status |-> status]

NoStatsArg == [StartTime |-> 0, CPUStealAvg |-> Float(0),
               IOLatencyAvg |-> Float(0), CPULoadAvg |-> Float(0)]

NoBaseline == [op |-> "none", stats |-> NoStatsArg,
               okSteal |-> TRUE, okIO |-> TRUE, okLoad |-> TRUE,
               deviation |-> Float(0), status |-> "stable"]

CallBaselineDeviation(stats, okSteal, okIO, okLoad) ==
    LET res == calculateBaselineDeviation(stats, rows, okSteal, okIO, okLoad)
    IN  /\ baseCall' = [op |-> "calculateBaselineDeviation", stats |-> stats,
                        okSteal |-> okSteal, okIO |-> okIO, okLoad |-> okLoad,
                        deviation |-> res.deviation, status |-> res.status]
        /\ UNCHANGED <<scoreCall, analysis, reportCall, notBaseVars>>

(***************************************************************************)
(* PeriodStats.  CPUBenchCV is carried as its square: the coefficient of   *)
(* variation is a square root, it is never negative for the benchmark      *)
(* durations, and it is only compared with constants.                      *)
(***************************************************************************)
StorageTypeSSD == "SSD"
StorageTypeHDD == "HDD"
StorageTypeUnknown == "Unknown"

ZeroPeriodStats ==
    [Period |-> "", StartTime |-> 0, EndTime |-> 0,
     CPUStealAvg |-> Float(0), CPUStealMax |-> Float(0), CPUStealP95 |-> Float(0),
     CPUIoWaitAvg |-> Float(0), CPUIoWaitMax |-> Float(0), CPUIoWaitP95 |-> Float(0),
     CPUBenchAvg |-> Float(0), CPUBenchCV |-> Float(0),
     IOLatencyAvg |-> Float(0), IOLatencyP95 |-> Float(0), IOLatencyP99 |-> Float(0),
     RandomIOWriteAvg |-> Float(0), RandomIOReadAvg |-> Float(0),
     RandomIOP95 |-> Float(0),
     DiskBusyPercent |-> Float(0),
     MemoryAvailablePercent |-> Float(0),
     CPULoadAvg |-> Float(0), CPULoadMax |-> Float(0),
     BaselineDeviation |-> Float(0), BaselineStatus |-> "",
     StorageType |-> StorageTypeUnknown]

WeightCPUSteal == Rat(35, 100)
WeightCPUIoWait == Rat(10, 100)
WeightCPUStability == Rat(10, 100)
WeightIOLatency == Rat(15, 100)
WeightRandomIO == Rat(10, 100)
WeightDiskBusy == Rat(5, 100)
WeightMemory == Rat(10, 100)
WeightBaseline == Rat(5, 100)

RiskLevelExcellent == "excellent"
RiskLevelGood == "good"
RiskLevelMedium == "medium"
RiskLevelSevere == "severe"

(***************************************************************************)
(* The scoring ladders.                                                    *)
(***************************************************************************)
Ladder4(x, t1, t2, t3, s1, s2, s3, s4) ==
    IF FLess(x, t1) THEN Float(s1)
    ELSE IF FLess(x, t2) THEN Float(s2)
    ELSE IF FLess(x, t3) THEN Float(s3)
    ELSE Float(s4)

scoreCPUStealSevereFromTen(avgSteal) ==
    Ladder4(avgSteal, Float(3), Float(8), Float(10), 100, 70, 40, 0)

scoreCPUSteal(avgSteal) ==
    Ladder4(avgSteal, Float(3), Float(8), Float(15), 100, 70, 40, 0)

scoreCPUIoWait(avgIoWait) ==
    Ladder4(avgIoWait, Float(5), Float(15), Float(30), 100, 70, 40, 0)

scoreCPUStability(cvSquared) ==
    IF FLess(cvSquared, FMul(Rat(5, 100), Rat(5, 100))) THEN Float(100)
    ELSE IF FLess(cvSquared, FMul(Rat(15, 100), Rat(15, 100))) THEN Float(70)
    ELSE Float(30)

scoreIOLatency(p95, storageType) ==
    IF storageType = StorageTypeHDD
       THEN Ladder4(p95, Float(50), Float(100), Float(200), 100, 70, 40, 0)
       ELSE Ladder4(p95, Float(20), Float(50), Float(100), 100, 70, 40, 0)

scoreRandomIO(p95, storageType) ==
    IF storageType = StorageTypeHDD
       THEN Ladder4(p95, Float(100), Float(200), Float(500), 100, 70, 40, 0)
       ELSE Ladder4(p95, Float(30), Float(80), Float(150), 100, 70, 40, 0)

scoreDiskBusy(busyPercent) ==
    Ladder4(busyPercent, Float(30), Float(60), Float(85), 100, 70, 40, 0)

scoreMemory(availablePercent) ==
    IF FLess(Float(90), availablePercent) THEN Float(100)
    ELSE IF FLess(Float(80), availablePercent) THEN Float(80)
    ELSE Float(50)

scoreBaselineDeviation(deviation) ==
    Ladder4(deviation, Float(10), Float(25), Float(50), 100, 70, 40, 20)

(***************************************************************************)
(* calculateOversellConfidenceBoost                                        *)
(***************************************************************************)
BoostWhateverTheLoad(stats) ==
    IF FLess(Float(3), stats.CPUStealAvg) \/ FLess(Float(5), stats.CPUIoWaitAvg)
       THEN LET boost == FAdd(Float(1),
                              FMul(FSub(Rat(7, 10), stats.CPULoadAvg), Rat(3, 10)))
            IN  IF FLess(Rat(12, 10), boost) THEN Rat(12, 10) ELSE boost
       ELSE Float(1)

calculateOversellConfidenceBoost(stats) ==
    IF FLeq(Rat(7, 10), stats.CPULoadAvg)
       THEN Float(1)
       ELSE IF FLess(Float(3), stats.CPUStealAvg)
                  \/ FLess(Float(5), stats.CPUIoWaitAvg)
               THEN LET boost == FAdd(Float(1),
                                      FMul(FSub(Rat(7, 10), stats.CPULoadAvg),
                                           Rat(3, 10)))
                    IN  IF FLess(Rat(12, 10), boost) THEN Rat(12, 10) ELSE boost
               ELSE Float(1)

(***************************************************************************)
(* The division of a steal or iowait score by the boost.                   *)
(***************************************************************************)
BoostedAlways(score, confidenceBoost) == FDiv(score, confidenceBoost)

Boosted(score, confidenceBoost) ==
    IF FLess(Float(1), confidenceBoost) /\ FLess(score, Float(100))
       THEN FDiv(score, confidenceBoost)
       ELSE score

RiskLevelAbove(totalScore) ==
    IF FLess(Float(90), totalScore) THEN RiskLevelExcellent
    ELSE IF FLess(Float(70), totalScore) THEN RiskLevelGood
    ELSE IF FLess(Float(50), totalScore) THEN RiskLevelMedium
    ELSE RiskLevelSevere

RiskLevelOf(totalScore) ==
    IF FLeq(Float(90), totalScore) THEN RiskLevelExcellent
    ELSE IF FLeq(Float(70), totalScore) THEN RiskLevelGood
    ELSE IF FLeq(Float(50), totalScore) THEN RiskLevelMedium
    ELSE RiskLevelSevere

(***************************************************************************)
(* calculateScore: the boost, the eight dimension scores (for steal and    *)
(* iowait also the score before the boost), the total and the level.       *)
(***************************************************************************)
WeightedSumWithoutBaseline(sc) ==
    FAdd(FMul(sc.cpuStealScore, WeightCPUSteal),
    FAdd(FMul(sc.cpuIoWaitScore, WeightCPUIoWait),
    FAdd(FMul(sc.cpuStabilityScore, WeightCPUStability),
    FAdd(FMul(sc.ioScore, WeightIOLatency),
    FAdd(FMul(sc.randomIOScore, WeightRandomIO),
    FAdd(FMul(sc.diskBusyScore, WeightDiskBusy),
         FMul(sc.memoryScore, WeightMemory)))))))

WeightedSum(sc) ==
    FAdd(FMul(sc.cpuStealScore, WeightCPUSteal),
    FAdd(FMul(sc.cpuIoWaitScore, WeightCPUIoWait),
    FAdd(FMul(sc.cpuStabilityScore, WeightCPUStability),
    FAdd(FMul(sc.ioScore, WeightIOLatency),
    FAdd(FMul(sc.randomIOScore, WeightRandomIO),
    FAdd(FMul(sc.diskBusyScore, WeightDiskBusy),
    FAdd(FMul(sc.memoryScore, WeightMemory),
         FMul(sc.baselineScore, WeightBaseline))))))))

calculateScore(stats) ==
    LET confidenceBoost == calculateOversellConfidenceBoost(stats)
        sc == [confidenceBoost |-> confidenceBoost,
               cpuStealLadder |-> scoreCPUSteal(stats.CPUStealAvg),
               cpuStealScore |->
                   Boosted(scoreCPUSteal(stats.CPUStealAvg), confidenceBoost),
               cpuIoWaitLadder |-> scoreCPUIoWait(stats.CPUIoWaitAvg),
               cpuIoWaitScore |->
                   Boosted(scoreCPUIoWait(stats.CPUIoWaitAvg), confidenceBoost),
               cpuStabilityScore |-> scoreCPUStability(stats.CPUBenchCV),
               ioScore |-> scoreIOLatency(stats.IOLatencyP95, stats.StorageType),
               randomIOScore |-> scoreRandomIO(stats.RandomIOP95, stats.StorageType),
               diskBusyScore |-> scoreDiskBusy(stats.DiskBusyPercent),
               memoryScore |-> scoreMemory(stats.MemoryAvailablePercent),
               baselineScore |-> scoreBaselineDeviation(stats.BaselineDeviation)]
        totalScore == WeightedSum(sc)
    IN  [confidenceBoost |-> sc.confidenceBoost,
         cpuStealLadder |-> sc.cpuStealLadder,
         cpuStealScore |-> sc.cpuStealScore,
         cpuIoWaitLadder |-> sc.cpuIoWaitLadder,
         cpuIoWaitScore |-> sc.cpuIoWaitScore,
         cpuStabilityScore |-> sc.cpuStabilityScore,
         ioScore |-> sc.ioScore,
         randomIOScore |-> sc.randomIOScore,
         diskBusyScore |-> sc.diskBusyScore,
         memoryScore |-> sc.memoryScore,
         baselineScore |-> sc.baselineScore,
         TotalScore |-> totalScore,
         RiskLevel |-> RiskLevelOf(totalScore)]

NoScores == calculateScore(ZeroPeriodStats)

NoScoreCall == [op |-> "none", stats |-> ZeroPeriodStats, out |-> NoScores]

CallCalculateScore ==
    /\ scoreCall.op = "none"
    /\ scoreCall' = [op |-> "calculateScore", stats |-> scoreCall.stats,
                     out |-> calculateScore(scoreCall.stats)]
    /\ UNCHANGED <<baseCall, analysis, reportCall, notBaseVars>>

(***************************************************************************)
(* coefficientOfVariation, squared: (sumSquares / n) / mean^2.             *)
(***************************************************************************)
RECURSIVE SumSquares(_, _)
SumSquares(values, mean) ==
    IF values = <<>>
       THEN Float(0)
       ELSE LET diff == FSub(values[1], mean)
            IN  FAdd(FMul(diff, diff), SumSquares(Tail(values), mean))

coefficientOfVariationSquared(values) ==
    IF Len(values) < 2
       THEN Float(0)
       ELSE LET mean == avg(values)
            IN  IF mean = Float(0)
                   THEN Float(0)
                   ELSE FDiv(FDiv(SumSquares(values, mean), Float(Len(values))),
                             FMul(mean, mean))

(***************************************************************************)
(* m.Extra[k].(float64): the value when the key is there and holds a       *)
(* float64, as a sequence of no or one element.                            *)
(***************************************************************************)
ExtraFloat64(extra, k) ==
    IF ~extra.nil /\ \E e \in extra.kv : e.k = k /\ e.t = "float64"
       THEN <<Float((CHOOSE e \in extra.kv : e.k = k /\ e.t = "float64").v)>>
       ELSE <<>>

RECURSIVE ExtraValues(_, _)
ExtraValues(metrics, k) ==
    IF metrics = <<>>
       THEN <<>>
       ELSE ExtraFloat64(metrics[1].Extra, k) \o ExtraValues(Tail(metrics), k)

(***************************************************************************)
(* The rows a Query may return last: those of the greatest timestamp among *)
(* the selected ones.                                                      *)
(***************************************************************************)
LastOfQuery(db, metricType, start, end) ==
    LET sel == SelectRange(db, metricType, start, end)
    IN  {ScanRow(r) : r \in {q \in sel : \A o \in sel : o.timestamp <= q.timestamp}}

AnalyzerQueries ==
    MetricTypes \cup {"baseline_steal", "baseline_io", "baseline_load"}

(***************************************************************************)
(* AnalyzePeriod.  failed holds the queries that return an error; latest   *)
(* is the last element of the memory query's result (a sequence of no or   *)
(* one metric).  Every error of a.store.Query is dropped, and the error    *)
(* returned is nil.                                                        *)
(***************************************************************************)
WindowValues(db, metricType, start, end, failed) ==
    extractValues(QueryOrNil(db, metricType, start, end, metricType \notin failed))

MemoryAvailableFullWhenAbsent(latest) ==
    IF latest = <<>>
       THEN Float(100)
       ELSE LET fromExtra == ExtraFloat64(latest[1].Extra, "available_percent")
                first == IF fromExtra = <<>> THEN Float(0) ELSE fromExtra[1]
            IN  IF first = Float(0)
                   THEN FSub(Float(100), latest[1].Value)
                   ELSE first

MemoryAvailable(latest) ==
    IF latest = <<>>
       THEN Float(0)
       ELSE LET fromExtra == ExtraFloat64(latest[1].Extra, "available_percent")
                first == IF fromExtra = <<>> THEN Float(0) ELSE fromExtra[1]
            IN  IF first = Float(0)
                   THEN FSub(Float(100), latest[1].Value)
                   ELSE first

AnalyzePeriodStats(period, start, end, storageType, db, failed, latest) ==
    LET steal  == WindowValues(db, MetricTypeCPUSteal, start, end, failed)
        bench  == WindowValues(db, MetricTypeCPUBench, start, end, failed)
        lat    == WindowValues(db, MetricTypeIOLatency, start, end, failed)
        iowait == WindowValues(db, MetricTypeCPUIoWait, start, end, failed)
        load   == WindowValues(db, MetricTypeCPULoad, start, end, failed)
        random == QueryOrNil(db, MetricTypeRandomIO, start, end,
                             MetricTypeRandomIO \notin failed)
        disk   == QueryOrNil(db, MetricTypeDiskStats, start, end,
                             MetricTypeDiskStats \notin failed)
        writeLatencies == ExtraValues(random, "write_latency_ms")
        readLatencies  == ExtraValues(random, "read_latency_ms")
        busyPercents   == IF Len(disk) >= 2
                             THEN ExtraValues(disk, "busy_percent")
                             ELSE <<>>
        st == [ZeroPeriodStats EXCEPT
                  !.Period = period, !.StartTime = start, !.EndTime = end,
                  !.StorageType = storageType,
                  !.CPUStealAvg = avg(steal),
                  !.CPUStealMax = max(steal),
                  !.CPUStealP95 = percentile(steal, Float(95)).result,
                  !.CPUIoWaitAvg = avg(iowait),
                  !.CPUIoWaitMax = max(iowait),
                  !.CPUIoWaitP95 = percentile(iowait, Float(95)).result,
                  !.CPUBenchAvg = avg(bench),
                  !.CPUBenchCV = coefficientOfVariationSquared(bench),
                  !.IOLatencyAvg = avg(lat),
                  !.IOLatencyP95 = percentile(lat, Float(95)).result,
                  !.IOLatencyP99 = percentile(lat, Float(99)).result,
                  !.MemoryAvailablePercent = MemoryAvailable(latest),
                  !.CPULoadAvg = avg(load),
                  !.CPULoadMax = max(load),
                  !.RandomIOWriteAvg = avg(writeLatencies),
                  !.RandomIOReadAvg = avg(readLatencies),
                  !.RandomIOP95 = percentile(writeLatencies, Float(95)).result,
                  !.DiskBusyPercent = avg(busyPercents)]
        base == calculateBaselineDeviation(
                    [StartTime |-> start, CPUStealAvg |-> st.CPUStealAvg,
                     IOLatencyAvg |-> st.IOLatencyAvg, CPULoadAvg |-> st.CPULoadAvg],
                    db, "baseline_steal" \notin failed, "baseline_io" \notin failed,
                    "baseline_load" \notin failed)
    IN  [st EXCEPT !.BaselineDeviation = base.deviation,
                   !.BaselineStatus = base.status]

NoAnalysis ==
    [op |-> "none", failed |-> {}, stats |-> ZeroPeriodStats,
     scores |-> NoScores, err |-> FALSE]

ErrorOfAnalyzePeriod(failed) == FALSE

AnalyzeOutcomes(period, start, end, storageType, db, failed) ==
    LET lasts == IF MetricTypeMemory \in failed
                       \/ LastOfQuery(db, MetricTypeMemory, start, end) = {}
                    THEN {<<>>}
                    ELSE {<<m>> : m \in LastOfQuery(db, MetricTypeMemory, start, end)}
    IN  {LET st == AnalyzePeriodStats(period, start, end, storageType, db, failed, latest)
         IN  [op |-> "AnalyzePeriod", failed |-> failed,
              stats |-> st, scores |-> calculateScore(st),
              err |-> ErrorOfAnalyzePeriod(failed)] : latest \in lasts}

AnalyzePeriod(period, start, end, storageType, failed) ==
    \E a \in AnalyzeOutcomes(period, start, end, storageType, rows, failed) :
        /\ analysis' = a
        /\ UNCHANGED <<baseCall, scoreCall, reportCall, notBaseVars>>

(***************************************************************************)
(* AIAnalyzer.Analyze: the narrative and the error.  api is what callAPI   *)
(* meets: "error" (any of its failures), or the content of the first       *)
(* choice, which may be empty.                                             *)
(***************************************************************************)
AIConfigs == [Enabled : BOOLEAN, Daily : BOOLEAN, Weekly : BOOLEAN, Monthly : BOOLEAN]

APIOutcomes == {"error", "", "narrative"}

callAPI(api) ==
    IF api = "error"
       THEN [text |-> "", err |-> TRUE]
       ELSE [text |-> api, err |-> FALSE]

Analyze(config, reportType, api) ==
    IF ~config.Enabled THEN [text |-> "", err |-> FALSE]
    ELSE IF reportType = "daily" /\ ~config.Daily THEN [text |-> "", err |-> FALSE]
    ELSE IF reportType = "weekly" /\ ~config.Weekly THEN [text |-> "", err |-> FALSE]
    ELSE IF reportType = "monthly" /\ ~config.Monthly THEN [text |-> "", err |-> FALSE]
    ELSE callAPI(api)

(***************************************************************************)
(* The window of a report: it ends now and starts a day, seven days or a   *)
(* calendar month earlier.                                                 *)
(***************************************************************************)
MonthLengths == {28, 29, 30, 31}

ReportTypes == {"daily", "weekly", "monthly"}

ReportStart(reportType, end, monthDays) ==
    CASE reportType = "daily"   -> AddDate(end, -1)
      [] reportType = "weekly"  -> AddDate(end, -7)
      [] reportType = "monthly" -> AddDate(end, -monthDays)
      [] OTHER                  -> 0

NoAIResult == [text |-> "", err |-> FALSE]

NoReport ==
    [op |-> "none", reportType |-> "", analyzed |-> FALSE, aiCalled |-> FALSE,
     ai |-> NoAIResult, sent |-> FALSE, sentStats |-> ZeroPeriodStats,
     sentText |-> "", sendOk |-> FALSE, exit |-> ""]

(***************************************************************************)
(* Whether the report stops after aiAnalyzer.Analyze: the error is logged  *)
(* (generateReport) or dropped (sendScheduledReport), never returned.      *)
(***************************************************************************)
StopsOnAIError(ai) == ai.err

StopsAfterAnalyze(ai) == FALSE

(***************************************************************************)
(* The report after AnalyzePeriod has returned a: onError is what the path *)
(* does with an error ("fatal" for log.Fatalf, "return").                  *)
(***************************************************************************)
ReportAfterAnalysis(op, reportType, a, config, api, sendOk, onError) ==
    LET ai == Analyze(config, reportType, api)
        base == [NoReport EXCEPT !.op = op, !.reportType = reportType,
                                 !.analyzed = TRUE]
    IN  IF a.err
           THEN [base EXCEPT !.exit = onError]
        ELSE IF StopsAfterAnalyze(ai)
           THEN [base EXCEPT !.aiCalled = TRUE, !.ai = ai, !.exit = onError]
        ELSE [base EXCEPT !.aiCalled = TRUE, !.ai = ai, !.sent = TRUE,
                          !.sentStats = a.stats, !.sentText = ai.text,
                          !.sendOk = sendOk,
                          !.exit = IF sendOk THEN "done"
                                   ELSE IF onError = "fatal" THEN "fatal" ELSE "done"]

generateReport(reportType, storageType, failed, config, api, sendOk) ==
    IF reportType \notin ReportTypes
       THEN /\ reportCall' = [NoReport EXCEPT !.op = "generateReport",
                                              !.reportType = reportType,
                                              !.exit = "fatal"]
            /\ UNCHANGED <<baseCall, scoreCall, analysis, notBaseVars>>
       ELSE \E monthDays \in MonthLengths :
            \E a \in AnalyzeOutcomes(reportType, ReportStart(reportType, now, monthDays),
                                     now, storageType, rows, failed) :
                /\ analysis' = a
                /\ reportCall' = ReportAfterAnalysis("generateReport", reportType, a,
                                                     config, api, sendOk, "fatal")
                /\ UNCHANGED <<baseCall, scoreCall, notBaseVars>>

sendScheduledReport(reportType, storageType, failed, config, api, sendOk) ==
    \E monthDays \in MonthLengths :
    \E a \in AnalyzeOutcomes(reportType, ReportStart(reportType, now, monthDays),
                             now, storageType, rows, failed) :
        /\ analysis' = a
        /\ reportCall' = ReportAfterAnalysis("sendScheduledReport", reportType, a,
                                             config, api, sendOk, "return")
        /\ UNCHANGED <<baseCall, scoreCall, notBaseVars>>

BaseIdle ==
    /\ baseCall = NoBaseline
    /\ scoreCall = NoScoreCall
    /\ analysis = NoAnalysis
    /\ reportCall = NoReport

(***************************************************************************)
(* calculateBaselineDeviation on its own: a store filled by Save with a    *)
(* chosen number of samples of each type over the baseline window, and     *)
(* optionally samples just older than the window; any current means.       *)
(***************************************************************************)
BaselineStartTime == AddDate(0, BaselineDays + 1) + (SubSec - 1)

BaselineCounts == {0, MinBaselineSamples - 1, MinBaselineSamples}

LoadCounts == {0, 2}

BaselineValues == {Float(0), Float(2)}

CurrentMeans == {Float(0), Float(5)}

WindowSamples(metricType, count, value) ==
    LET first == Unix(AddDate(BaselineStartTime, -BaselineDays))
        span  == Unix(BaselineStartTime) - first + 1
    IN  [i \in 1..count |->
            [Timestamp |-> TimeUnix(first + ((i - 1) % span)),
             Type |-> metricType,
             Value |-> FAdd(value, Float((i - 1) % 2)),
             Extra |-> NilExtra]]

StaleSamples(present) ==
    IF present
       THEN [i \in 1..2 |->
                [Timestamp |-> AddDate(BaselineStartTime, -BaselineDays) - SubSec,
                 Type |-> IF i = 1 THEN MetricTypeCPUSteal ELSE MetricTypeIOLatency,
                 Value |-> Float(9),
                 Extra |-> NilExtra]]
       ELSE <<>>

BaselineInit ==
    /\ \E nSteal, nIO \in BaselineCounts, nLoad \in LoadCounts,
          vSteal, vIO \in BaselineValues, stale \in BOOLEAN :
          LET ms == WindowSamples(MetricTypeCPUSteal, nSteal, vSteal)
                       \o WindowSamples(MetricTypeIOLatency, nIO, vIO)
                       \o WindowSamples(MetricTypeCPULoad, nLoad, Float(1))
                       \o StaleSamples(stale)
          IN  /\ rows = SaveAll({}, 1, ms)
              /\ nextId = Len(ms) + 1
              /\ saved = {[id |-> i, extra |-> NilExtra] : i \in 1..Len(ms)}
    /\ now = BaselineStartTime
    /\ lastOp = NoOp
    /\ CpuIdle
    /\ StatIdle
    /\ BaseIdle
    /\ DaemonIdle

BaselineNext ==
    \E steal, io \in CurrentMeans, okSteal, okIO, okLoad \in BOOLEAN :
        CallBaselineDeviation([StartTime |-> BaselineStartTime,
                               CPUStealAvg |-> steal, IOLatencyAvg |-> io,
                               CPULoadAvg |-> Float(1)],
                              okSteal, okIO, okLoad)

BaselineSpec == BaselineInit /\ [][BaselineNext]_vars

(***************************************************************************)
(* percentile on its own: any slice of at most MaxLen values, any p.       *)
(***************************************************************************)
RECURSIVE SeqsUpTo(_, _)
SeqsUpTo(S, n) ==
    IF n = 0
       THEN {<<>>}
       ELSE SeqsUpTo(S, n - 1)
               \cup {Append(q, x) : q \in {r \in SeqsUpTo(S, n - 1) : Len(r) = n - 1},
                                    x \in S}

PercentileValues == {Float(i) : i \in 1..MaxValue}

PercentileArgs ==
    {Float(0), Rat(1, 10), Float(34), Float(50), Float(95), Float(99),
     Float(100), Float(150)}

PercentileInit ==
    /\ pvals \in SeqsUpTo(PercentileValues, MaxLen)
    /\ pCall = NoPercentile
    /\ StoreIdle
    /\ CpuIdle
    /\ BaseIdle
    /\ DaemonIdle

PercentileNext == \E p \in PercentileArgs : CallPercentile(p)

PercentileSpec == PercentileInit /\ [][PercentileNext]_vars

CpuInit ==
    /\ procStat \in {[ZeroStats EXCEPT !.User = u, !.Steal = st] :
                        u \in 0..1, st \in 0..1}
    /\ lastStats = NoStats
    /\ cpuCall = NoCollect
    /\ StoreIdle
    /\ StatIdle
    /\ BaseIdle
    /\ DaemonIdle

CpuNext ==
    \/ KernelAdvance
    \/ \E ok1, ok2 \in BOOLEAN, slept \in {procStat} \cup KernelSteps(procStat) :
          Collect(ok1, ok2, slept)

CpuSpec == CpuInit /\ [][CpuNext]_vars

(***************************************************************************)
(* calculateScore on its own: any statistics of a window.                  *)
(***************************************************************************)
ScoreLoads == {Float(0), Rat(1, 100), Rat(3, 10), Rat(7, 10), Float(1)}

ScoreSteals == {Float(0), Float(3), Float(10), Float(20)}

ScoreIoWaits == {Float(0), Float(5), Float(20), Float(40)}

ScoreCVSquares == {Float(0), Rat(1, 100), Rat(1, 4)}

ScoreLatencies == {Float(0), Float(50), Float(200)}

ScoreStorageTypes == {StorageTypeSSD, StorageTypeHDD}

ScoreRandomLatencies == {Float(0), Float(100)}

ScoreBusyPercents == {Float(0), Float(90)}

ScoreAvailablePercents == {Float(0), Float(85), Float(95)}

ScoreDeviations == {Float(0), Float(30)}

ScoreInit ==
    /\ \E load \in ScoreLoads, steal \in ScoreSteals, iowait \in ScoreIoWaits,
          cv \in ScoreCVSquares, lat \in ScoreLatencies, st \in ScoreStorageTypes,
          rnd \in ScoreRandomLatencies, busy \in ScoreBusyPercents,
          mem \in ScoreAvailablePercents, dev \in ScoreDeviations :
          scoreCall = [NoScoreCall EXCEPT !.stats =
                          [ZeroPeriodStats EXCEPT
                              !.CPULoadAvg = load, !.CPUStealAvg = steal,
                              !.CPUIoWaitAvg = iowait, !.CPUBenchCV = cv,
                              !.IOLatencyP95 = lat, !.StorageType = st,
                              !.RandomIOP95 = rnd, !.DiskBusyPercent = busy,
                              !.MemoryAvailablePercent = mem,
                              !.BaselineDeviation = dev]]
    /\ baseCall = NoBaseline
    /\ analysis = NoAnalysis
    /\ reportCall = NoReport
    /\ StoreIdle
    /\ CpuIdle
    /\ StatIdle
    /\ DaemonIdle

ScoreNext == CallCalculateScore

ScoreSpec == ScoreInit /\ [][ScoreNext]_vars

(***************************************************************************)
(* The analyzer over a store: a daily window, for every subset of the      *)
(* metric types two samples of the type in the window, and with or without *)
(* one older sample of every type just before the window.                  *)
(***************************************************************************)
AnalyzeStart == AddDate(0, BaselineDays + 1)

AnalyzeEnd == AddDate(AnalyzeStart, 1)

SampleValues(metricType) ==
    CASE metricType = MetricTypeCPUSteal  -> <<Float(8), Float(12)>>
      [] metricType = MetricTypeCPUIoWait -> <<Float(4), Float(6)>>
      [] metricType = MetricTypeCPUBench  -> <<Float(90), Float(110)>>
      [] metricType = MetricTypeCPULoad   -> <<Rat(1, 5), Rat(2, 5)>>
      [] metricType = MetricTypeIOLatency -> <<Float(40), Float(60)>>
      [] metricType = MetricTypeRandomIO  -> <<Float(80), Float(120)>>
      [] metricType = MetricTypeMemory    -> <<Float(5), Float(15)>>
      [] OTHER                            -> <<Float(1), Float(2)>>

SampleExtra(metricType, i) ==
    CASE metricType = MetricTypeRandomIO ->
            MakeExtra({[k |-> "write_latency_ms", t |-> "float64", v |-> 60 + 20 * i],
                       [k |-> "read_latency_ms", t |-> "float64", v |-> 30 + 10 * i]})
      [] metricType = MetricTypeMemory ->
            MakeExtra({[k |-> "available_percent", t |-> "float64", v |-> 105 - 10 * i]})
      [] metricType = MetricTypeDiskStats ->
            MakeExtra({[k |-> "read_ops", t |-> "uint64", v |-> i],
                       [k |-> "io_time_ms", t |-> "uint64", v |-> i]})
      [] OTHER -> NilExtra

(***************************************************************************)
(* The two samples of a type: at the first and the last second of the      *)
(* window, and the two memory samples both within the last second.         *)
(***************************************************************************)
AnalyzeSamples(metricType) ==
    [i \in 1..2 |->
        [Timestamp |-> IF i = 1 /\ metricType # MetricTypeMemory
                          THEN AnalyzeStart
                          ELSE AnalyzeEnd + (i - 1) * (SubSec - 1),
         Type |-> metricType,
         Value |-> SampleValues(metricType)[i],
         Extra |-> SampleExtra(metricType, i)]]

OlderSample(metricType) ==
    <<[Timestamp |-> AnalyzeStart - SubSec, Type |-> metricType,
       Value |-> Float(100), Extra |-> NilExtra]>>

RECURSIVE OlderSamples(_)
OlderSamples(types) ==
    IF types = <<>>
       THEN <<>>
       ELSE OlderSample(types[1]) \o OlderSamples(Tail(types))

RECURSIVE SamplesOfTypes(_)
SamplesOfTypes(types) ==
    IF types = <<>>
       THEN <<>>
       ELSE AnalyzeSamples(types[1]) \o SamplesOfTypes(Tail(types))

RECURSIVE SeqOfTypes(_)
SeqOfTypes(types) ==
    IF types = {}
       THEN <<>>
       ELSE LET first == CHOOSE x \in types : TRUE
            IN  <<first>> \o SeqOfTypes(types \ {first})

AnalyzeInit ==
    /\ \E present \in SUBSET MetricTypes, older \in BOOLEAN :
          LET ms == (IF older THEN OlderSamples(SeqOfTypes(MetricTypes)) ELSE <<>>)
                       \o SamplesOfTypes(SeqOfTypes(present))
          IN  /\ rows = SaveAll({}, 1, ms)
              /\ nextId = Len(ms) + 1
              /\ saved = {[id |-> i, extra |-> ms[i].Extra] : i \in 1..Len(ms)}
    /\ now = AnalyzeEnd + (SubSec - 1)
    /\ lastOp = NoOp
    /\ CpuIdle
    /\ StatIdle
    /\ BaseIdle
    /\ DaemonIdle

AnalyzeFailures == {{}} \cup {{q} : q \in AnalyzerQueries}

AnalyzeNext ==
    \E storageType \in {StorageTypeSSD, StorageTypeHDD}, failed \in AnalyzeFailures :
        /\ analysis = NoAnalysis
        /\ AnalyzePeriod("daily", AnalyzeStart, AnalyzeEnd, storageType, failed)

AnalyzeSpec == AnalyzeInit /\ [][AnalyzeNext]_vars

(***************************************************************************)
(* The two report paths over a store with or without samples in the last   *)
(* day: the manual one (any -report value) and the scheduled one.          *)
(***************************************************************************)
ReportInit ==
    /\ \E present \in {{}, {MetricTypeCPUSteal, MetricTypeMemory}, MetricTypes} :
          LET ms == OlderSamples(SeqOfTypes(MetricTypes))
                       \o SamplesOfTypes(SeqOfTypes(present))
          IN  /\ rows = SaveAll({}, 1, ms)
              /\ nextId = Len(ms) + 1
              /\ saved = {[id |-> i, extra |-> ms[i].Extra] : i \in 1..Len(ms)}
    /\ now = AnalyzeEnd
    /\ lastOp = NoOp
    /\ CpuIdle
    /\ StatIdle
    /\ BaseIdle
    /\ DaemonIdle

ManualReport ==
    \E reportType \in ReportTypes \cup {"yearly"}, config \in AIConfigs,
       api \in APIOutcomes, sendOk \in BOOLEAN :
        /\ reportCall = NoReport
        /\ generateReport(reportType, StorageTypeSSD, {}, config, api, sendOk)

ScheduledReport ==
    \E reportType \in ReportTypes, config \in AIConfigs,
       api \in APIOutcomes, sendOk \in BOOLEAN :
        /\ reportCall = NoReport
        /\ sendScheduledReport(reportType, StorageTypeSSD, {}, config, api, sendOk)

ReportNext == ManualReport \/ ScheduledReport

ReportSpec == ReportInit /\ [][ReportNext]_vars

(***************************************************************************)
(* The store on its own: any caller, any order of calls.                   *)
(***************************************************************************)
Init ==
    /\ StoreIdle
    /\ CpuIdle
    /\ StatIdle
    /\ BaseIdle
    /\ DaemonIdle

Spec == Init /\ [][Next]_vars

(***************************************************************************)
(* runDaemon.  The clock of the model counts units of 1/SubSec second; a   *)
(* day has SecPerDay seconds.  The sampling intervals are shorter than one *)
(* unit, so every sampling ticker has ticked when the clock has advanced;  *)
(* the sampling tickers are followed for MaxSampleTicks units.  The report *)
(* check case starts report goroutines, which only read the store, and is  *)
(* not part of this model.                                                 *)
(*                                                                         *)
(* From MaxDaemonTime - Day on, every sample the model has stored is older *)
(* than the longest retention period by more than a second, so that what   *)
(* a sweep does no longer depends on the day it runs on.  The clock of the *)
(* model therefore stands for the time of day from there on: past          *)
(* MaxDaemonTime it is folded back by one day, and the daemon runs for     *)
(* ever.                                                                   *)
(***************************************************************************)
Day == SecPerDay * SubSec

MaxDaemonTime ==
    (SubSec - 1) + MaxSampleTicks + SubSec + (MaxRetentionDays + 2) * Day

Samplers == {"cpuSteal", "cpuBench", "ioTest"}

Tickers == Samplers \cup {"cleanup"}

Collectors == {"cpu", "bench", "latency", "random", "memory", "diskstats", "load"}

Metric(t, metricType, value, extra) ==
    [Timestamp |-> t, Type |-> metricType, Value |-> value, Extra |-> extra]

F64(k, v) == [k |-> k, t |-> "float64", v |-> v]

U64(k, v) == [k |-> k, t |-> "uint64", v |-> v]

IfOk(ok, ms) == IF ok THEN ms ELSE <<>>

(***************************************************************************)
(* The cumulative I/O time (milliseconds) /proc/diskstats shows at time t  *)
(* for a disk that has been busy without a pause since time 0.             *)
(***************************************************************************)
MsPerSec == 1000

IOTimeMsAt(t) == (t * MsPerSec) \div SubSec

(***************************************************************************)
(* The metrics collectAll hands to store.Save, in its order; ok holds the  *)
(* collectors that succeed and usage is what cpu.Collect returned.         *)
(***************************************************************************)
collectAllMetrics(t, ok, usage) ==
    IfOk("cpu" \in ok,
         <<Metric(t, MetricTypeCPUSteal, usage.StealPercent, NilExtra),
           Metric(t, MetricTypeCPUIoWait, usage.IOWaitPercent, NilExtra)>>)
    \o IfOk("bench" \in ok,
         <<Metric(t, MetricTypeCPUBench, Float(3), NilExtra)>>)
    \o IfOk("latency" \in ok,
         <<Metric(t, MetricTypeIOLatency, Float(3),
                  MakeExtra({F64("write_latency_ms", 2), F64("sync_latency_ms", 1)}))>>)
    \o IfOk("random" \in ok,
         <<Metric(t, MetricTypeRandomIO, Float(2),
                  MakeExtra({F64("write_latency_ms", 2), F64("read_latency_ms", 1)}))>>)
    \o IfOk("memory" \in ok,
         <<Metric(t, MetricTypeMemory, Float(50),
                  MakeExtra({U64("total_kb", 2), U64("available_kb", 1),
                             F64("available_percent", 50), F64("swap_usage", 0)}))>>)
    \o IfOk("diskstats" \in ok,
         <<Metric(t, MetricTypeDiskStats, Float(IOTimeMsAt(t)),
                  MakeExtra({U64("read_ops", 2), U64("write_ops", 2),
                             U64("read_bytes", 2), U64("write_bytes", 2),
                             U64("io_time_ms", IOTimeMsAt(t)),
                             U64("weighted_io_ms", IOTimeMsAt(t))}))>>)
    \o IfOk("load" \in ok,
         <<Metric(t, MetricTypeCPULoad, Float(1),
                  MakeExtra({F64("load1", 1), F64("load5", 1), F64("load15", 1),
                             F64("num_cpu", 1)}))>>)

(***************************************************************************)
(* The metrics the ticker cases hand to store.Save.                        *)
(***************************************************************************)
cpuStealMetricsStoppingAtFailure(t, ok, usage) ==
    IfOk("cpu" \in ok,
         <<Metric(t, MetricTypeCPUSteal, usage.StealPercent, NilExtra),
           Metric(t, MetricTypeCPUIoWait, usage.IOWaitPercent, NilExtra)>>
         \o IfOk("load" \in ok,
                 <<Metric(t, MetricTypeCPULoad, Float(1), NilExtra)>>))

cpuStealMetrics(t, ok, usage) ==
    IfOk("cpu" \in ok,
         <<Metric(t, MetricTypeCPUSteal, usage.StealPercent, NilExtra),
           Metric(t, MetricTypeCPUIoWait, usage.IOWaitPercent, NilExtra)>>)
    \o IfOk("load" \in ok,
         <<Metric(t, MetricTypeCPULoad, Float(1), NilExtra)>>)

cpuBenchMetrics(t, ok) ==
    IfOk("bench" \in ok, <<Metric(t, MetricTypeCPUBench, Float(3), NilExtra)>>)

ioTestMetrics(t, ok) ==
    IfOk("latency" \in ok,
         <<Metric(t, MetricTypeIOLatency, Float(3), NilExtra)>>)
    \o IfOk("memory" \in ok,
         <<Metric(t, MetricTypeMemory, Float(50),
                  MakeExtra({F64("available_percent", 50)}))>>)
    \o IfOk("diskstats" \in ok,
         <<Metric(t, MetricTypeDiskStats, Float(IOTimeMsAt(t)),
                  MakeExtra({U64("read_ops", 2), U64("write_ops", 2),
                             U64("read_bytes", 2), U64("write_bytes", 2),
                             U64("io_time_ms", IOTimeMsAt(t)),
                             U64("weighted_io_ms", IOTimeMsAt(t))}))>>)

(***************************************************************************)
(* store.Save of each metric of ms; dbOk tells whether the database takes  *)
(* the inserts.  The errors of Save are not looked at by the callers.      *)
(***************************************************************************)
SaveSamples(ms, dbOk) ==
    /\ rows' = IF dbOk THEN SaveAll(rows, nextId, ms) ELSE rows
    /\ nextId' = IF dbOk THEN nextId + Len(ms) ELSE nextId
    /\ saved' = IF dbOk
                   THEN saved \cup {[id |-> nextId + i - 1, extra |-> ms[i].Extra] :
                                       i \in 1..Len(ms)}
                   ELSE saved
    /\ born' = IF dbOk
                  THEN born \cup {[id |-> nextId + i - 1, at |-> ms[i].Timestamp] :
                                     i \in 1..Len(ms)}
                  ELSE born
    /\ lastOp' = IF ms = <<>>
                    THEN lastOp
                    ELSE [Call("Save") EXCEPT !.mtype = ms[Len(ms)].Type,
                                              !.err = ~dbOk]

CollectCPU(ok) ==
    CollectOutcome(lastStats, procStat, "cpu" \in ok, "cpu" \in ok, procStat)

(***************************************************************************)
(* The collectAll before the loop.                                         *)
(***************************************************************************)
DaemonStartup(ok, dbOk) ==
    LET out == CollectCPU(ok)
    IN  /\ pc = "start"
        /\ pc' = "loop"
        /\ lastStats' = out.lastStats
        /\ procStat' = out.procStat
        /\ cpuCall' = out.call
        /\ SaveSamples(collectAllMetrics(now, ok, out.call.usage), dbOk)
        /\ UNCHANGED <<now, due, started, retention, statVars, baseVars>>

CaseCPUSteal(ok, dbOk) ==
    LET out == CollectCPU(ok)
    IN  /\ pc = "loop"
        /\ "cpuSteal" \in due
        /\ due' = due \ {"cpuSteal"}
        /\ lastStats' = out.lastStats
        /\ procStat' = out.procStat
        /\ cpuCall' = out.call
        /\ SaveSamples(cpuStealMetrics(now, ok, out.call.usage), dbOk)
        /\ UNCHANGED <<now, pc, started, retention, statVars, baseVars>>

CaseCPUBench(ok, dbOk) ==
    /\ pc = "loop"
    /\ "cpuBench" \in due
    /\ due' = due \ {"cpuBench"}
    /\ SaveSamples(cpuBenchMetrics(now, ok), dbOk)
    /\ UNCHANGED <<now, pc, started, retention, cpuVars, statVars, baseVars>>

CaseIOTest(ok, dbOk) ==
    /\ pc = "loop"
    /\ "ioTest" \in due
    /\ due' = due \ {"ioTest"}
    /\ SaveSamples(ioTestMetrics(now, ok), dbOk)
    /\ UNCHANGED <<now, pc, started, retention, cpuVars, statVars, baseVars>>

(***************************************************************************)
(* case <-cleanupTicker.C: store.Cleanup(cfg.Storage.RetentionDays); an    *)
(* error is logged and the loop goes on.                                   *)
(***************************************************************************)
CaseCleanup(dbOk) ==
    LET cutoff == CleanupCutoff(now, retention)
        gone == CleanupDeletes(rows, cutoff)
    IN  /\ pc = "loop"
        /\ "cleanup" \in due
        /\ due' = due \ {"cleanup"}
        /\ rows' = IF dbOk THEN rows \ gone ELSE rows
        /\ lastOp' = IF dbOk
                        THEN [Call("Cleanup") EXCEPT !.rdays = retention,
                                 !.cutoff = cutoff, !.deleted = Cardinality(gone)]
                        ELSE [Call("Cleanup") EXCEPT !.rdays = retention,
                                 !.cutoff = cutoff, !.err = TRUE]
        /\ UNCHANGED <<nextId, now, saved, born, pc, started, retention,
                       cpuVars, statVars, baseVars>>

(***************************************************************************)
(* case sig := <-sigCh: the tickers are stopped and runDaemon returns.     *)
(***************************************************************************)
CaseSignal ==
    /\ pc = "loop"
    /\ pc' = "exited"
    /\ due' = {}
    /\ UNCHANGED <<storeVars, started, retention, born,
                   cpuVars, statVars, baseVars>>

(***************************************************************************)
(* The clock advances by one unit once the loop has served the ticks it    *)
(* holds.  The cleanup ticker ticks every 24 hours after its creation; a   *)
(* sampling ticker has ticked whenever the clock has advanced.             *)
(***************************************************************************)
Ticks(elapsed) ==
    {tk \in Samplers : elapsed <= MaxSampleTicks}
        \cup {tk \in {"cleanup"} : elapsed % Day = 0}

DaemonTick ==
    /\ pc = "loop"
    /\ due = {}
    /\ now' = IF now < MaxDaemonTime THEN now + 1 ELSE now + 1 - Day
    /\ due' = Ticks(now' - started)
    /\ UNCHANGED <<rows, nextId, lastOp, saved, pc, started, retention, born,
                   cpuVars, statVars, baseVars>>

DaemonInit ==
    /\ rows = {}
    /\ nextId = 1
    /\ now \in 0..(SubSec - 1)
    /\ lastOp = NoOp
    /\ saved = {}
    /\ pc = "start"
    /\ due = {}
    /\ started = now
    /\ retention \in 0..MaxRetentionDays
    /\ born = {}
    /\ LoopIdle
    /\ CpuIdle
    /\ StatIdle
    /\ BaseIdle

Outcomes == {<<Collectors, TRUE>>, <<{}, TRUE>>, <<Collectors, FALSE>>}

StartupStep ==
    \E o \in Outcomes : DaemonStartup(o[1], o[2]) /\ UNCHANGED loopVars

CPUStealStep ==
    \E o \in Outcomes : CaseCPUSteal(o[1], o[2]) /\ UNCHANGED loopVars

CPUBenchStep ==
    \E o \in Outcomes : CaseCPUBench(o[1], o[2]) /\ UNCHANGED loopVars

IOTestStep ==
    \E o \in Outcomes : CaseIOTest(o[1], o[2]) /\ UNCHANGED loopVars

CleanupStep ==
    \E dbOk \in BOOLEAN : CaseCleanup(dbOk) /\ UNCHANGED loopVars

SignalStep == CaseSignal /\ UNCHANGED loopVars

TickStep == DaemonTick /\ UNCHANGED loopVars

DaemonNext ==
    \/ StartupStep
    \/ CPUStealStep
    \/ CPUBenchStep
    \/ IOTestStep
    \/ CleanupStep
    \/ SignalStep
    \/ TickStep

DaemonSpec == DaemonInit /\ [][DaemonNext]_vars

(***************************************************************************)
(* runDaemon goroutine by goroutine.  The goroutine of runDaemon runs      *)
(* collectAll and then the select loop, one case body at a time; a report  *)
(* that is due is started with go sendScheduledReport and goes through     *)
(* AnalyzePeriod, aiAnalyzer.Analyze and SendReport (up to three attempts) *)
(* on a goroutine of its own.  Time passes, and tickers tick, whatever the *)
(* goroutines are doing.                                                   *)
(***************************************************************************)
LoopTickers == Tickers \cup {"reportCheck"}

CallsCollect(body) == body \in {"collectAll", "cpuSteal"}

Running(body) ==
    [at |-> body, collecting |-> loop.collecting + (IF CallsCollect(body) THEN 1 ELSE 0)]

(***************************************************************************)
(* The goroutine of runDaemon takes a case of the select only while it     *)
(* waits in the select statement.                                          *)
(***************************************************************************)
ReadyAnytime(l) == TRUE

Ready(l) == l.at = "select"

(***************************************************************************)
(* After go sendScheduledReport(...) the case body ends and the loop is    *)
(* back in the select statement.                                           *)
(***************************************************************************)
LoopRunsReports(types) ==
    IF types = {} THEN InSelect ELSE [at |-> "sendScheduledReport", collecting |-> 0]

LoopAfterDispatch(types) == InSelect

MaxSendTries == 3

Goroutine(reportType) ==
    [reportType |-> reportType, at |-> "AnalyzePeriod", a |-> NoAnalysis,
     ai |-> NoAIResult, tries |-> 0, sendOk |-> FALSE]

Unfinished == {g \in goroutines : g.at \notin {"done", "killed"}}

GoBeginCollectAll ==
    /\ pc = "start"
    /\ Ready(loop)
    /\ loop' = Running("collectAll")
    /\ UNCHANGED <<storeVars, cpuVars, statVars, baseVars,
                   pc, due, started, retention, born, goroutines,
                       auxVars>>

GoEndCollectAll ==
    /\ loop.at = "collectAll"
    /\ DaemonStartup(Collectors, TRUE)
    /\ loop' = InSelect
    /\ UNCHANGED <<goroutines, auxVars>>

GoReceive ==
    \E tk \in due :
        /\ pc = "loop"
        /\ Ready(loop)
        /\ loop' = Running(tk)
        /\ UNCHANGED <<storeVars, cpuVars, statVars, baseVars,
                       pc, due, started, retention, born, goroutines,
                       auxVars>>

GoEndCPUSteal ==
    /\ loop.at = "cpuSteal"
    /\ CaseCPUSteal(Collectors, TRUE)
    /\ loop' = InSelect
    /\ UNCHANGED <<goroutines, auxVars>>

GoEndCPUBench ==
    /\ loop.at = "cpuBench"
    /\ CaseCPUBench(Collectors, TRUE)
    /\ loop' = InSelect
    /\ UNCHANGED <<goroutines, auxVars>>

GoEndIOTest ==
    /\ loop.at = "ioTest"
    /\ CaseIOTest(Collectors, TRUE)
    /\ loop' = InSelect
    /\ UNCHANGED <<goroutines, auxVars>>

GoEndCleanup ==
    /\ loop.at = "cleanup"
    /\ CaseCleanup(TRUE)
    /\ loop' = InSelect
    /\ UNCHANGED <<goroutines, auxVars>>

(***************************************************************************)
(* case <-reportCheckTicker.C: the reports that are due (types) are each   *)
(* started with go sendScheduledReport.                                    *)
(***************************************************************************)
GoReportCheck ==
    \E types \in SUBSET {"daily"} :
        /\ pc = "loop"
        /\ loop.at = "reportCheck"
        /\ \A g \in goroutines : g.reportType \notin types
        /\ due' = due \ {"reportCheck"}
        /\ goroutines' = goroutines \cup {Goroutine(t) : t \in types}
        /\ loop' = LoopAfterDispatch(types)
        /\ UNCHANGED <<storeVars, cpuVars, statVars, baseVars,
                       pc, started, retention, born,
                       auxVars>>

(***************************************************************************)
(* The steps of a sendScheduledReport goroutine.                           *)
(***************************************************************************)
GoAnalyzePeriod ==
    \E g \in goroutines :
        /\ pc = "loop"
        /\ g.at = "AnalyzePeriod"
        /\ \E a \in AnalyzeOutcomes(g.reportType,
                                    ReportStart(g.reportType, now, 30), now,
                                    StorageTypeSSD, rows, {}) :
              /\ analysis' = a
              /\ goroutines' = (goroutines \ {g})
                                  \cup {[g EXCEPT !.at = "Analyze", !.a = a]}
        /\ UNCHANGED <<storeVars, cpuVars, statVars, baseCall, scoreCall, reportCall,
                       pc, due, started, retention, born, loop,
                       auxVars>>

GoAnalyze ==
    \E g \in goroutines, api \in APIOutcomes :
        /\ pc = "loop"
        /\ g.at = "Analyze"
        /\ goroutines' = (goroutines \ {g})
               \cup {[g EXCEPT !.at = "SendReport",
                               !.ai = Analyze([Enabled |-> TRUE, Daily |-> TRUE,
                                               Weekly |-> TRUE, Monthly |-> TRUE],
                                              g.reportType, api)]}
        /\ UNCHANGED <<storeVars, cpuVars, statVars, baseVars,
                       pc, due, started, retention, born, loop,
                       auxVars>>

GoSendMessage ==
    \E g \in goroutines, ok \in BOOLEAN :
        /\ pc = "loop"
        /\ g.at = "SendReport"
        /\ IF ok \/ g.tries + 1 = MaxSendTries
              THEN /\ goroutines' = (goroutines \ {g})
                        \cup {[g EXCEPT !.at = "done", !.tries = g.tries + 1,
                                        !.sendOk = ok]}
                   /\ reportCall' = [NoReport EXCEPT
                          !.op = "sendScheduledReport",
                          !.reportType = g.reportType, !.analyzed = TRUE,
                          !.aiCalled = TRUE, !.ai = g.ai, !.sent = TRUE,
                          !.sentStats = g.a.stats, !.sentText = g.ai.text,
                          !.sendOk = ok, !.exit = "done"]
              ELSE /\ goroutines' = (goroutines \ {g})
                        \cup {[g EXCEPT !.tries = g.tries + 1]}
                   /\ UNCHANGED reportCall
        /\ UNCHANGED <<storeVars, cpuVars, statVars, baseCall, scoreCall, analysis,
                       pc, due, started, retention, born, loop,
                       auxVars>>

(***************************************************************************)
(* case sig := <-sigCh: runDaemon returns, main returns and the process    *)
(* exits; the goroutines that have not finished end with it.               *)
(***************************************************************************)
GoSignal ==
    /\ Ready(loop)
    /\ CaseSignal
    /\ loop' = [at |-> "returned", collecting |-> loop.collecting]
    /\ goroutines' = {IF g.at = "done" THEN g ELSE [g EXCEPT !.at = "killed"] :
                         g \in goroutines}
    /\ UNCHANGED auxVars

(***************************************************************************)
(* A time unit passes: the cpu-steal and the report-check ticker put a     *)
(* tick in their channel (which holds one tick at most), the slower        *)
(* tickers every 24 hours.                                                 *)
(***************************************************************************)
MaxLoopTime == 2

GoTick ==
    /\ pc = "loop"
    /\ now < MaxLoopTime
    /\ now' = now + 1
    /\ due' = due \cup {"cpuSteal", "reportCheck"}
                  \cup {tk \in {"cpuBench", "ioTest", "cleanup"} :
                            (now' - started) % Day = 0}
    /\ UNCHANGED <<rows, nextId, lastOp, saved, pc, started, retention, born,
                   cpuVars, statVars, baseVars, loopVars>>

GoInit ==
    /\ rows = {}
    /\ nextId = 1
    /\ now = 0
    /\ lastOp = NoOp
    /\ saved = {}
    /\ pc = "start"
    /\ due = {}
    /\ started = 0
    /\ retention = MaxRetentionDays
    /\ born = {}
    /\ LoopIdle
    /\ CpuIdle
    /\ StatIdle
    /\ BaseIdle

GoNext ==
    \/ GoBeginCollectAll
    \/ GoEndCollectAll
    \/ GoReceive
    \/ GoEndCPUSteal
    \/ GoEndCPUBench
    \/ GoEndIOTest
    \/ GoEndCleanup
    \/ GoReportCheck
    \/ GoAnalyzePeriod
    \/ GoAnalyze
    \/ GoSendMessage
    \/ GoSignal
    \/ GoTick

GoSpec == GoInit /\ [][GoNext]_vars

(***************************************************************************)
(* The goroutine of runDaemon is scheduled again and again and the clock   *)
(* goes on; nothing is assumed about the progress of a report goroutine,   *)
(* which waits for the network, nor about the arrival of a signal.         *)
(***************************************************************************)
GoFairSpec ==
    /\ GoSpec
    /\ WF_vars(GoBeginCollectAll)
    /\ WF_vars(GoEndCollectAll)
    /\ WF_vars(GoReceive)
    /\ WF_vars(GoEndCPUSteal)
    /\ WF_vars(GoEndCPUBench)
    /\ WF_vars(GoEndIOTest)
    /\ WF_vars(GoEndCleanup)
    /\ WF_vars(GoReportCheck)
    /\ WF_vars(GoTick)

(***************************************************************************)
(* runDaemon with collectors that fail one by one.  A handler logs the     *)
(* failure of a collector (log.Printf in the else branch) and goes on with *)
(* its next collector.  ok is the set of collectors that succeed in the    *)
(* handler; the database takes every insert.  The sampling tickers have    *)
(* different periods: a time unit puts a tick in the channel of one of     *)
(* them.                                                                   *)
(***************************************************************************)
Handlers == Samplers \cup {"collectAll"}

ProbesOf(handler) ==
    CASE handler = "collectAll" -> Collectors
      [] handler = "cpuSteal" -> {"cpu", "load"}
      [] handler = "cpuBench" -> {"bench"}
      [] handler = "ioTest" -> {"latency", "memory", "diskstats"}

TypesOf(probe) ==
    CASE probe = "cpu" -> {MetricTypeCPUSteal, MetricTypeCPUIoWait}
      [] probe = "bench" -> {MetricTypeCPUBench}
      [] probe = "latency" -> {MetricTypeIOLatency}
      [] probe = "random" -> {MetricTypeRandomIO}
      [] probe = "memory" -> {MetricTypeMemory}
      [] probe = "diskstats" -> {MetricTypeDiskStats}
      [] probe = "load" -> {MetricTypeCPULoad}

StartupOutcomes ==
    {Collectors, {}} \cup {Collectors \ {c} : c \in Collectors}

ProbeStartup ==
    \E ok \in StartupOutcomes :
        /\ DaemonStartup(ok, TRUE)
        /\ logged' = ProbesOf("collectAll") \ ok
        /\ UNCHANGED <<loop, goroutines, sched, diskCall>>

ProbeCPUSteal ==
    \E ok \in SUBSET ProbesOf("cpuSteal") :
        /\ CaseCPUSteal(ok, TRUE)
        /\ logged' = ProbesOf("cpuSteal") \ ok
        /\ UNCHANGED <<loop, goroutines, sched, diskCall>>

ProbeCPUBench ==
    \E ok \in SUBSET ProbesOf("cpuBench") :
        /\ CaseCPUBench(ok, TRUE)
        /\ logged' = ProbesOf("cpuBench") \ ok
        /\ UNCHANGED <<loop, goroutines, sched, diskCall>>

ProbeIOTest ==
    \E ok \in SUBSET ProbesOf("ioTest") :
        /\ CaseIOTest(ok, TRUE)
        /\ logged' = ProbesOf("ioTest") \ ok
        /\ UNCHANGED <<loop, goroutines, sched, diskCall>>

ProbeTick ==
    \E tk \in Samplers :
        /\ pc = "loop"
        /\ due = {}
        /\ now < MaxLoopTime
        /\ now' = now + 1
        /\ due' = {tk}
        /\ UNCHANGED <<rows, nextId, lastOp, saved, pc, started, retention, born,
                       cpuVars, statVars, baseVars, loopVars>>

ProbeInit == GoInit

ProbeNext ==
    \/ ProbeStartup
    \/ ProbeCPUSteal
    \/ ProbeCPUBench
    \/ ProbeIOTest
    \/ ProbeTick

ProbeSpec == ProbeInit /\ [][ProbeNext]_vars

(***************************************************************************)
(* DiskCollector.CollectDiskStats.  A device name is the sequence of its   *)
(* characters.  A row of /proc/diskstats is its device name, what the      *)
(* device is (a whole disk, a partition of one, or a virtual device) and   *)
(* its counters; every row has the 14 fields the function asks for.        *)
(***************************************************************************)
Digits == {"0", "1", "2", "3", "4", "5", "6", "7", "8", "9"}

LowerCase ==
    {"a", "b", "c", "d", "e", "f", "g", "h", "i", "j", "k", "l", "m",
     "n", "o", "p", "q", "r", "s", "t", "u", "v", "w", "x", "y", "z"}

HasPrefix(s, prefix) ==
    /\ Len(s) >= Len(prefix)
    /\ SubSeq(s, 1, Len(prefix)) = prefix

Contains(s, c) == \E i \in 1..Len(s) : s[i] = c

SkipsDevice(deviceName) ==
    \/ HasPrefix(deviceName, <<"l", "o", "o", "p">>)
    \/ HasPrefix(deviceName, <<"r", "a", "m">>)
    \/ HasPrefix(deviceName, <<"d", "m", "-">>)
    \/ /\ Len(deviceName) > 2
       /\ deviceName[Len(deviceName)] \in Digits
       /\ \/ Contains(deviceName, "p")
          \/ deviceName[Len(deviceName) - 1] \in LowerCase

SectorSize == 512

RECURSIVE SumDiskStats(_)
SumDiskStats(table) ==
    IF table = {}
       THEN NoDiskStats
       ELSE LET row == CHOOSE r \in table : TRUE
                rest == SumDiskStats(table \ {row})
            IN  [ReadOps |-> rest.ReadOps + row.readOps,
                 WriteOps |-> rest.WriteOps + row.writeOps,
                 ReadBytes |-> rest.ReadBytes + row.readSectors * SectorSize,
                 WriteBytes |-> rest.WriteBytes + row.writeSectors * SectorSize,
                 IOTimeMs |-> rest.IOTimeMs + row.ioTime,
                 WeightedIOMs |-> rest.WeightedIOMs + row.weightedIO]

DiskStatsOf(table) ==
    SumDiskStats({row \in table : ~SkipsDevice(row.deviceName)})

DiskRow(deviceName, kind) ==
    [deviceName |-> deviceName, kind |-> kind, readOps |-> 1, readSectors |-> 2,
     writeOps |-> 3, writeSectors |-> 4, ioTime |-> 5, weightedIO |-> 6]

DiskRows ==
    {DiskRow(<<"s", "d", "a">>, "disk"),
     DiskRow(<<"s", "d", "a", "1">>, "partition"),
     DiskRow(<<"s", "d", "a", "1", "0">>, "partition"),
     DiskRow(<<"v", "d", "a">>, "disk"),
     DiskRow(<<"v", "d", "a", "1">>, "partition"),
     DiskRow(<<"n", "v", "m", "e", "0", "n", "1">>, "disk"),
     DiskRow(<<"n", "v", "m", "e", "0", "n", "1", "p", "1">>, "partition"),
     DiskRow(<<"l", "o", "o", "p", "0">>, "virtual"),
     DiskRow(<<"r", "a", "m", "0">>, "virtual"),
     DiskRow(<<"d", "m", "-", "0">>, "virtual")}

CollectDiskStats ==
    /\ diskCall' = [diskCall EXCEPT !.op = "CollectDiskStats",
                                    !.stats = DiskStatsOf(diskCall.table)]
    /\ UNCHANGED <<storeVars, cpuVars, statVars, baseVars,
                   pc, due, started, retention, born,
                   loop, goroutines, logged, sched>>

DiskStatsInit ==
    /\ diskCall \in {[NoDiskCall EXCEPT !.table = table] : table \in SUBSET DiskRows}
    /\ StoreIdle
    /\ CpuIdle
    /\ StatIdle
    /\ BaseIdle
    /\ RunIdle

DiskStatsNext == CollectDiskStats

DiskStatsSpec == DiskStatsInit /\ [][DiskStatsNext]_vars

(***************************************************************************)
(* isTmpfs and selectTestDir.  A path is the sequence of its characters;   *)
(* /proc/mounts is the set of its lines, each a mount point and a          *)
(* filesystem type (no two lines of the model share a mount point, so the  *)
(* order of the lines does not matter to isTmpfs); exists holds the        *)
(* candidates os.Stat finds.                                               *)
(***************************************************************************)
Slash == <<"/">>

Tmp == <<"/", "t", "m", "p">>

Var == <<"/", "v", "a", "r">>

VarTmp == <<"/", "v", "a", "r", "/", "t", "m", "p">>

Dot == <<".">>

isTmpfs(path, mounts) ==
    \E line \in mounts :
        /\ HasPrefix(path, line.mountPoint)
        /\ line.fsType = "tmpfs"
        /\ \/ path = line.mountPoint
           \/ HasPrefix(path, line.mountPoint \o Slash)

candidates == <<Tmp, VarTmp, Dot>>

RECURSIVE selectTestDirFrom(_, _, _)
selectTestDirFrom(i, mounts, exists) ==
    IF i > Len(candidates)
       THEN Dot
       ELSE LET dir == candidates[i]
            IN  IF dir = Dot
                   THEN dir
                   ELSE IF dir \notin exists
                           THEN selectTestDirFrom(i + 1, mounts, exists)
                           ELSE IF isTmpfs(dir, mounts)
                                   THEN selectTestDirFrom(i + 1, mounts, exists)
                                   ELSE dir

FsTypes == {"ext4", "tmpfs"}

MountLine(mountPoint, fsType) == [mountPoint |-> mountPoint, fsType |-> fsType]

(***************************************************************************)
(* The mount tables of the model: the root is mounted, and each of /tmp,   *)
(* /var and /var/tmp is a mount point or not.                              *)
(***************************************************************************)
MountTables ==
    {{MountLine(Slash, root)} \cup {MountLine(mp, fs[mp]) : mp \in mps} :
        root \in FsTypes, mps \in SUBSET {Tmp, Var, VarTmp},
        fs \in [{Tmp, Var, VarTmp} -> FsTypes]}

selectTestDir ==
    /\ diskCall' = [diskCall EXCEPT
                       !.op = "selectTestDir",
                       !.dir = selectTestDirFrom(1, diskCall.mounts, diskCall.exists)]
    /\ UNCHANGED <<storeVars, cpuVars, statVars, baseVars,
                   pc, due, started, retention, born,
                   loop, goroutines, logged, sched>>

TestDirInit ==
    /\ diskCall \in {[NoDiskCall EXCEPT !.mounts = mounts, !.exists = exists] :
                        mounts \in MountTables, exists \in SUBSET {Tmp, VarTmp}}
    /\ StoreIdle
    /\ CpuIdle
    /\ StatIdle
    /\ BaseIdle
    /\ RunIdle

TestDirNext == selectTestDir

TestDirSpec == TestDirInit /\ [][TestDirNext]_vars

(***************************************************************************)
(* case <-reportCheckTicker.C.  The calendar of the model is a small one:  *)
(* MinutesInHour minutes make an hour, HoursInDay hours a day, DaysInMonth *)
(* days a month, MonthsInYear months a year and DaysInWeek days a week;    *)
(* the zero time is the first minute of the first day (day 1, a day 0 of   *)
(* the week) of the first month (month 1).  The ticker ticks every minute. *)
(***************************************************************************)
MinutesInHour == 2

HoursInDay == 2

DaysInMonth == 2

MonthsInYear == 2

DaysInWeek == 2

MinutesInDay == MinutesInHour * HoursInDay

MinutesInYear == MinutesInDay * DaysInMonth * MonthsInYear

DayCount(t) == t \div MinutesInDay

MonthCount(t) == DayCount(t) \div DaysInMonth

MinuteOf(t) == t % MinutesInHour

HourOf(t) == (t \div MinutesInHour) % HoursInDay

DayOf(t) == (DayCount(t) % DaysInMonth) + 1

MonthOf(t) == (MonthCount(t) % MonthsInYear) + 1

YearDayOf(t) == (DayCount(t) % (DaysInMonth * MonthsInYear)) + 1

WeekdayOf(t) == DayCount(t) % DaysInWeek

ReportConfigs ==
    [Daily : BOOLEAN, Weekly : BOOLEAN, Monthly : BOOLEAN,
     Hour : 0..(HoursInDay - 1), Minute : 0..(MinutesInHour - 1),
     WeeklyDay : 0..(DaysInWeek - 1), MonthlyDay : 1..DaysInMonth]

DailyDue(cfg, t) ==
    cfg.Daily /\ HourOf(t) = cfg.Hour /\ MinuteOf(t) = cfg.Minute

WeeklyDue(cfg, t) ==
    cfg.Weekly /\ WeekdayOf(t) = cfg.WeeklyDay /\ HourOf(t) = cfg.Hour

MonthlyDue(cfg, t) ==
    cfg.Monthly /\ DayOf(t) = cfg.MonthlyDay /\ HourOf(t) = cfg.Hour

StartsDaily(sc) ==
    DailyDue(sc.cfg, sc.now) /\ DayOf(sc.lastDailyReport) # DayOf(sc.now)

StartsWeekly(sc) ==
    WeeklyDue(sc.cfg, sc.now) /\ YearDayOf(sc.lastWeeklyReport) # YearDayOf(sc.now)

StartsMonthly(sc) ==
    MonthlyDue(sc.cfg, sc.now) /\ MonthOf(sc.lastMonthlyReport) # MonthOf(sc.now)

ReportsStarted(sc) ==
    {k \in {"daily"} : StartsDaily(sc)}
        \cup {k \in {"weekly"} : StartsWeekly(sc)}
        \cup {k \in {"monthly"} : StartsMonthly(sc)}

CaseReportCheck ==
    LET types == ReportsStarted(sched)
    IN  /\ sched.tick
        /\ sched' = [sched EXCEPT
              !.op = "reportCheck",
              !.tick = FALSE,
              !.lastDailyReport = IF "daily" \in types THEN sched.now ELSE @,
              !.lastWeeklyReport = IF "weekly" \in types THEN sched.now ELSE @,
              !.lastMonthlyReport = IF "monthly" \in types THEN sched.now ELSE @,
              !.sent = [k \in ReportKinds |-> IF k \in types THEN {sched.now} ELSE @[k]],
              !.started = types]
        /\ UNCHANGED <<storeVars, cpuVars, statVars, baseVars,
                       pc, due, started, retention, born,
                       loop, goroutines, logged, diskCall>>

ReportCheckTick ==
    /\ sched.op # "none"
    /\ ~sched.tick
    /\ sched.now < MinutesInYear + MinutesInDay
    /\ sched' = [sched EXCEPT !.now = @ + 1, !.tick = TRUE]
    /\ UNCHANGED <<storeVars, cpuVars, statVars, baseVars,
                   pc, due, started, retention, born,
                   loop, goroutines, logged, diskCall>>

ScheduleInit ==
    /\ sched \in {[NoSchedule EXCEPT !.op = "runDaemon", !.cfg = cfg, !.now = t] :
                     cfg \in ReportConfigs, t \in 1..MinutesInDay}
    /\ pc = "none"
    /\ due = {}
    /\ started = 0
    /\ retention = 0
    /\ born = {}
    /\ loop = InSelect
    /\ goroutines = {}
    /\ logged = {}
    /\ diskCall = NoDiskCall
    /\ StoreIdle
    /\ CpuIdle
    /\ StatIdle
    /\ BaseIdle

ScheduleNext ==
    \/ ReportCheckTick
    \/ CaseReportCheck

ScheduleSpec == ScheduleInit /\ [][ScheduleNext]_vars

(***************************************************************************)
(* select takes one of the ready cases at random and a ticker's channel    *)
(* keeps its tick until it is received, so a case that is ready is taken   *)
(* in the end; the clock never stops.  The signal may never come.          *)
(***************************************************************************)
DaemonFairSpec ==
    /\ DaemonSpec
    /\ WF_vars(StartupStep)
    /\ WF_vars(CPUStealStep)
    /\ WF_vars(CPUBenchStep)
    /\ WF_vars(IOTestStep)
    /\ WF_vars(CleanupStep)
    /\ WF_vars(TickStep)

(***************************************************************************)
(* Properties of the store.                                                *)
(***************************************************************************)
RowIds(db) == {r.id : r \in db}

RowOf(db, id) == CHOOSE r \in db : r.id = id

(* C1: after any Saves and Cleanups, a Query that succeeds returns exactly *)
(* the stored rows of the requested type whose timestamp lies between the  *)
(* second of start and the second of end, both included, each row once,    *)
(* with non-decreasing timestamps; it is the empty sequence when no row    *)
(* matches.                                                                *)
C1_QueryReturnsRange ==
    (lastOp.op = "Query" /\ ~lastOp.err) =>
        LET res == lastOp.res
            want == {r \in rows :
                        /\ r.metric_type = lastOp.mtype
                        /\ lastOp.start \div SubSec <= r.timestamp
                        /\ r.timestamp <= lastOp.end \div SubSec}
        IN  /\ Len(res) = Cardinality(want)
            /\ {res[i].ID : i \in 1..Len(res)} = RowIds(want)
            /\ \A i \in 1..Len(res) :
                  /\ res[i].Type = lastOp.mtype
                  /\ res[i].Value = RowOf(want, res[i].ID).value
                  /\ res[i].Timestamp = RowOf(want, res[i].ID).timestamp * SubSec
            /\ \A i, j \in 1..Len(res) :
                  i < j => res[i].Timestamp <= res[j].Timestamp
            /\ (want = {} => res = <<>>)

C1_Witness ==
    /\ lastOp.op = "Query"
    /\ ~lastOp.err
    /\ Len(lastOp.res) = 1
    /\ lastOp.res[1].Timestamp = (lastOp.end \div SubSec) * SubSec
    /\ lastOp.end % SubSec = 1
    /\ Cardinality({r \in rows : r.metric_type = lastOp.mtype}) = 2

(* C2: a Cleanup that succeeds removes exactly the rows whose timestamp is *)
(* strictly before the second of now - retentionDays, keeps every other    *)
(* row whatever its type, and returns the number of rows it removed.       *)
C2_CleanupStrictlyOlder ==
    [][(lastOp'.op = "Cleanup" /\ ~lastOp'.err /\ now' = now) =>
          LET cutoff == (now - lastOp'.rdays * SecPerDay * SubSec) \div SubSec
          IN  /\ rows' = {r \in rows : r.timestamp >= cutoff}
              /\ lastOp'.deleted = Cardinality(rows) - Cardinality(rows')]_vars

C2_Witness ==
    /\ lastOp.op = "Cleanup"
    /\ ~lastOp.err
    /\ lastOp.deleted = 1
    /\ \E r \in rows : r.timestamp = lastOp.cutoff

(* C3, as claimed: a Cleanup that directly follows a Cleanup with the same *)
(* retentionDays (no Save in between) returns 0.                           *)
C3_SecondCleanupReturnsZero ==
    (/\ lastOp.op = "Cleanup"
     /\ ~lastOp.err
     /\ lastOp.prev.op = "Cleanup"
     /\ lastOp.prev.rdays = lastOp.rdays) => lastOp.deleted = 0

(* C3, amended: a Cleanup that directly follows a Cleanup with the same    *)
(* retentionDays (no Save in between) returns 0 when the clock has not     *)
(* moved its cutoff to a later second than the cutoff of the first call.   *)
C3_SecondCleanupSameCutoff ==
    (/\ lastOp.op = "Cleanup"
     /\ ~lastOp.err
     /\ lastOp.prev.op = "Cleanup"
     /\ lastOp.prev.rdays = lastOp.rdays
     /\ lastOp.prev.cutoff = lastOp.cutoff) => lastOp.deleted = 0

C3_Witness ==
    /\ lastOp.op = "Cleanup"
    /\ ~lastOp.err
    /\ lastOp.prev.op = "Cleanup"
    /\ lastOp.prev.rdays = lastOp.rdays
    /\ lastOp.prev.cutoff = lastOp.cutoff
    /\ Cardinality(saved) = 2
    /\ Cardinality(rows) = 1

(* C4: a Query returns every row that was saved with a non-nil Extra with  *)
(* an Extra equal, key by key and value by value, to the one saved.        *)
C4_ExtraRoundTrip ==
    (lastOp.op = "Query" /\ ~lastOp.err) =>
        \A i \in 1..Len(lastOp.res) : \A s \in saved :
            (s.id = lastOp.res[i].ID /\ ~s.extra.nil)
                => lastOp.res[i].Extra = s.extra

(* C5: GetLatestMetric returns a stored row of the type with the greatest  *)
(* timestamp; with no row of the type it returns no metric and no error,   *)
(* and on a storage error no metric and an error.                          *)
C5_LatestOrNotFound ==
    lastOp.op = "GetLatestMetric" =>
        LET ofType == {r \in rows : r.metric_type = lastOp.mtype}
        IN  /\ lastOp.err => lastOp.res = <<>>
            /\ (~lastOp.err /\ ofType = {}) => lastOp.res = <<>>
            /\ (~lastOp.err /\ ofType # {}) =>
                  /\ Len(lastOp.res) = 1
                  /\ \E r \in ofType :
                        /\ r.id = lastOp.res[1].ID
                        /\ lastOp.res[1].Type = r.metric_type
                        /\ lastOp.res[1].Value = r.value
                        /\ lastOp.res[1].Timestamp = r.timestamp * SubSec
                        /\ \A q \in ofType : q.timestamp <= r.timestamp

C5_Witness ==
    /\ lastOp.op = "GetLatestMetric"
    /\ ~lastOp.err
    /\ Len(lastOp.res) = 1
    /\ \E q \in rows : /\ q.metric_type = lastOp.mtype
                       /\ q.timestamp * SubSec < lastOp.res[1].Timestamp

(* C6: the store is append-only.  In every step a row that stays keeps its *)
(* id, timestamp, type, value and payload; a Save adds at most one row,    *)
(* under an id no row has, and removes none; Query and GetLatestMetric     *)
(* leave the table alone; rows disappear only in a Cleanup.                *)
C6_AppendOnly ==
    [][/\ \A r \in rows' : r.id \in RowIds(rows) => r \in rows
       /\ rows' # rows => lastOp'.op \in {"Save", "Cleanup"}
       /\ (lastOp'.op = "Save" /\ now' = now) =>
              /\ rows \subseteq rows'
              /\ Cardinality(rows' \ rows) <= 1
              /\ ~lastOp'.err => Cardinality(rows' \ rows) = 1
              /\ \A r \in rows' \ rows : r.id \notin {s.id : s \in saved}
       /\ ~(rows \subseteq rows') => (lastOp'.op = "Cleanup" /\ now' = now)
       /\ Cardinality(RowIds(rows')) = Cardinality(rows')]_vars

C6_Witness ==
    /\ lastOp.op = "Save"
    /\ ~lastOp.err
    /\ Cardinality(rows) = 2
    /\ \E r, q \in rows : /\ r.id # q.id
                          /\ r.metric_type = q.metric_type
                          /\ r.timestamp = q.timestamp

(***************************************************************************)
(* Properties of the CPU sampler.                                          *)
(***************************************************************************)
SumStats(s) ==
    s.User + s.Nice + s.System + s.Idle + s.IOWait + s.IRQ + s.SoftIRQ
        + s.Steal + s.Guest + s.GuestNice

(* C8: a Collect that succeeds returns 100 * (steal delta) / (total delta) *)
(* and 100 * (iowait delta) / (total delta), the deltas taken from the     *)
(* snapshot the collector held (for a first call, its first reading) to    *)
(* the snapshot read in this call; with a total delta of zero it returns   *)
(* {0, 0}.                                                                 *)
C8_CollectPercentages ==
    [][((cpuCall' # cpuCall \/ lastStats' # lastStats) /\ ~cpuCall'.err) =>
          LET held == IF lastStats.nil THEN procStat ELSE lastStats.s
              read == procStat'
              totalDelta == SumStats(read) - SumStats(held)
              stealDelta == read.Steal - held.Steal
              iowaitDelta == read.IOWait - held.IOWait
              u == cpuCall'.usage
          IN  IF totalDelta = 0
                 THEN u.StealPercent = Float(0) /\ u.IOWaitPercent = Float(0)
                 ELSE /\ u.StealPercent.n * totalDelta
                            = 100 * stealDelta * u.StealPercent.d
                      /\ u.IOWaitPercent.n * totalDelta
                            = 100 * iowaitDelta * u.IOWaitPercent.d]_vars

C8_Witness ==
    /\ cpuCall.op = "Collect"
    /\ ~cpuCall.err
    /\ ~cpuCall.first
    /\ cpuCall.usage.StealPercent = Float(25)
    /\ cpuCall.usage.IOWaitPercent = Float(50)
    /\ lastStats.s.Steal = 2


(***************************************************************************)
(* The retention sweep of the daemon.                                      *)
(***************************************************************************)
BornAt(id) == (CHOOSE b \in born : b.id = id).at

SampleIds == 1..(Cardinality(Collectors) + 1 + 7 * MaxSampleTicks)

SweepDone ==
    /\ "cleanup" \in due
    /\ "cleanup" \notin due'
    /\ pc' = "loop"

(***************************************************************************)
(* A row leaves the store only in a step of the sweep and only when the    *)
(* age of its sample exceeds the retention period; an id that has left     *)
(* never comes back, later rows getting ids never used before; and after   *)
(* a sweep that succeeded no sample is left whose age exceeds the period   *)
(* by a second or more.                                                    *)
(***************************************************************************)
SweepSafety ==
    /\ \A r \in rows \ rows' :
          /\ SweepDone
          /\ now - BornAt(r.id) > retention * Day
    /\ \A id \in RowIds(rows') \ RowIds(rows) : id >= nextId
    /\ \A r \in rows : r.id < nextId
    /\ (SweepDone /\ ~lastOp'.err) =>
          \A r \in rows' : now - BornAt(r.id) < retention * Day + SubSec

SweepSucceeded == lastOp.op = "Cleanup" /\ ~lastOp.err

LeastIntegerNotBelow(p, n) ==
    CHOOSE k \in -1..(2 * n + 1) :
        /\ k * 100 * p.d >= p.n * n
        /\ (k - 1) * 100 * p.d < p.n * n

NearestRank(p, n) ==
    LET k == LeastIntegerNotBelow(p, n) - 1
    IN  IF k < 0 THEN 0 ELSE IF k > n - 1 THEN n - 1 ELSE k

C9_PercentileNearestRank ==
    (pCall.op = "percentile" /\ Len(pCall.input) > 0) =>
        LET in == pCall.input
            n  == Len(in)
            r  == pCall.result
            k  == NearestRank(pCall.p, n)
            below   == {i \in 1..n : FLess(in[i], r)}
            notOver == {i \in 1..n : FLeq(in[i], r)}
        IN  /\ \E i \in 1..n : in[i] = r
            /\ Cardinality(below) <= k
            /\ Cardinality(notOver) >= k + 1
            /\ pCall.p = Float(100) => \A i \in 1..n : FLeq(in[i], r)
            /\ (FLess(Float(0), pCall.p) /\ pCall.p.n * n <= 100 * pCall.p.d)
                  => \A i \in 1..n : FLeq(r, in[i])
            /\ pvals = in

C9_Witness ==
    /\ pCall.op = "percentile"
    /\ pCall.p = Float(34)
    /\ pCall.input = <<Float(3), Float(1), Float(2)>>
    /\ pCall.result = Float(2)
    /\ pvals = <<Float(3), Float(1), Float(2)>>

(***************************************************************************)
(* C10: when the store holds fewer than 10 cpu_steal samples and fewer     *)
(* than 10 io_latency samples between 7 days before stats.StartTime and    *)
(* stats.StartTime, calculateBaselineDeviation returns deviation 0 and     *)
(* status "stable", whatever the sample values and the current means.      *)
(***************************************************************************)
InBaselineWindow(metricType, start) ==
    {r \in rows : /\ r.metric_type = metricType
                  /\ r.timestamp >= Unix(start) - BaselineDays * SecPerDay
                  /\ r.timestamp <= Unix(start)}

C10_FewBaselineSamplesStable ==
    (/\ baseCall.op = "calculateBaselineDeviation"
     /\ Cardinality(InBaselineWindow(MetricTypeCPUSteal, baseCall.stats.StartTime)) < 10
     /\ Cardinality(InBaselineWindow(MetricTypeIOLatency, baseCall.stats.StartTime)) < 10)
        => /\ baseCall.deviation = Float(0)
           /\ baseCall.status = "stable"

C10_Witness ==
    /\ baseCall.op = "calculateBaselineDeviation"
    /\ Cardinality(InBaselineWindow(MetricTypeCPUSteal, baseCall.stats.StartTime)) = 9
    /\ Cardinality(InBaselineWindow(MetricTypeIOLatency, baseCall.stats.StartTime)) = 9
    /\ Cardinality({r \in rows : r.metric_type = MetricTypeCPUSteal}) = 10
    /\ \A r \in InBaselineWindow(MetricTypeCPUSteal, baseCall.stats.StartTime) :
          FLeq(r.value, Float(1))
    /\ baseCall.stats.CPUStealAvg = Float(5)
    /\ baseCall.deviation = Float(0)
    /\ baseCall.status = "stable"

(***************************************************************************)
(* C11: the confidence boost is 1 whenever the normalized load average is  *)
(* at least 0.7; it always lies between 1 and 1.2; and it is above 1 only  *)
(* when the load is below 0.7 and the steal average is above 3 or the      *)
(* iowait average above 5, and then it is the smaller of 1.2 and           *)
(* 1 + (0.7 - load) * 0.3.                                                 *)
(***************************************************************************)
C11_ConfidenceBoost ==
    scoreCall.op = "calculateScore" =>
        LET st    == scoreCall.stats
            b     == scoreCall.out.confidenceBoost
            lin   == FAdd(Float(1), FMul(FSub(Rat(7, 10), st.CPULoadAvg), Rat(3, 10)))
            issue == FLess(Float(3), st.CPUStealAvg) \/ FLess(Float(5), st.CPUIoWaitAvg)
        IN  /\ FLeq(Rat(7, 10), st.CPULoadAvg) => b = Float(1)
            /\ FLeq(Float(1), b) /\ FLeq(b, Rat(12, 10))
            /\ FLess(Float(1), b) =>
                  /\ FLess(st.CPULoadAvg, Rat(7, 10))
                  /\ issue
                  /\ b = (IF FLess(Rat(12, 10), lin) THEN Rat(12, 10) ELSE lin)
            /\ (FLess(st.CPULoadAvg, Rat(7, 10)) /\ ~issue) => b = Float(1)

C11_Witness ==
    /\ scoreCall.op = "calculateScore"
    /\ scoreCall.stats.CPULoadAvg = Rat(3, 10)
    /\ scoreCall.stats.CPUStealAvg = Float(0)
    /\ scoreCall.stats.CPUIoWaitAvg = Float(20)
    /\ scoreCall.out.confidenceBoost = Rat(112, 100)

C13_RiskBands ==
    scoreCall.op = "calculateScore" =>
        LET t == scoreCall.out.TotalScore
            l == scoreCall.out.RiskLevel
        IN  /\ l = "excellent" <=> FLeq(Float(90), t)
            /\ l = "good" <=> (FLeq(Float(70), t) /\ FLess(t, Float(90)))
            /\ l = "medium" <=> (FLeq(Float(50), t) /\ FLess(t, Float(70)))
            /\ l = "severe" <=> FLess(t, Float(50))
            /\ l \in {"excellent", "good", "medium", "severe"}

C13_Witness ==
    /\ scoreCall.op = "calculateScore"
    /\ scoreCall.out.TotalScore = Float(90)
    /\ scoreCall.out.RiskLevel = "excellent"

(***************************************************************************)
(* C19: the boost never improves a score.  The adjusted steal or iowait    *)
(* score is the ladder score s itself when s = 100 or the boost b is 1,    *)
(* and s / b when s < 100 and b > 1, hence never above s; the other six    *)
(* dimension scores are the ladder scores of their statistics whatever     *)
(* the boost.                                                              *)
(***************************************************************************)
AdjustedAsClaimed(s, b, adjusted) ==
    /\ (s = Float(100) \/ b = Float(1)) => adjusted = s
    /\ (FLess(s, Float(100)) /\ FLess(Float(1), b)) => adjusted = FDiv(s, b)
    /\ FLeq(adjusted, s)

C19_BoostNeverImproves ==
    scoreCall.op = "calculateScore" =>
        LET o  == scoreCall.out
            st == scoreCall.stats
        IN  /\ AdjustedAsClaimed(o.cpuStealLadder, o.confidenceBoost, o.cpuStealScore)
            /\ AdjustedAsClaimed(o.cpuIoWaitLadder, o.confidenceBoost, o.cpuIoWaitScore)
            /\ o.cpuStealLadder \in {Float(100), Float(70), Float(40), Float(0)}
            /\ o.cpuIoWaitLadder \in {Float(100), Float(70), Float(40), Float(0)}
            /\ o.cpuStabilityScore \in {Float(100), Float(70), Float(30)}
            /\ o.ioScore \in {Float(100), Float(70), Float(40), Float(0)}
            /\ o.randomIOScore \in {Float(100), Float(70), Float(40), Float(0)}
            /\ o.diskBusyScore \in {Float(100), Float(70), Float(40), Float(0)}
            /\ o.memoryScore \in {Float(100), Float(80), Float(50)}
            /\ o.baselineScore \in {Float(100), Float(70), Float(40), Float(20)}

C19_Witness ==
    /\ scoreCall.op = "calculateScore"
    /\ scoreCall.out.confidenceBoost = Rat(112, 100)
    /\ scoreCall.out.cpuStealLadder = Float(100)
    /\ scoreCall.out.cpuStealScore = Float(100)
    /\ scoreCall.out.cpuIoWaitLadder = Float(40)
    /\ scoreCall.out.cpuIoWaitScore = FDiv(Float(40), Rat(112, 100))

(***************************************************************************)
(* The baseline comparison stated on the rows of the store.  A baseline    *)
(* query that fails hands the analyzer no sample.                          *)
(***************************************************************************)
BaselineSamples(metricType, ok) ==
    IF ok THEN InBaselineWindow(metricType, baseCall.stats.StartTime) ELSE {}

RECURSIVE SumOfRows(_)
SumOfRows(S) ==
    IF S = {}
       THEN Float(0)
       ELSE LET r == CHOOSE r \in S : TRUE
            IN  FAdd(r.value, SumOfRows(S \ {r}))

MeanOfRows(S) == FDiv(SumOfRows(S), Float(Cardinality(S)))

PercentDeviation(current, S) ==
    IF S # {} /\ FLess(Float(0), MeanOfRows(S))
       THEN <<FMul(FDiv(FSub(current, MeanOfRows(S)), MeanOfRows(S)), Float(100))>>
       ELSE <<>>

ComparedAsClaimed ==
    LET st   == baseCall.stats
        devs == PercentDeviation(st.CPUStealAvg,
                                 BaselineSamples(MetricTypeCPUSteal, baseCall.okSteal))
                \o PercentDeviation(st.IOLatencyAvg,
                                 BaselineSamples(MetricTypeIOLatency, baseCall.okIO))
                \o PercentDeviation(st.CPULoadAvg,
                                 BaselineSamples(MetricTypeCPULoad, baseCall.okLoad))
        mean == IF devs = <<>> THEN Float(0)
                ELSE FDiv(SumFloats(devs), Float(Len(devs)))
    IN  /\ baseCall.status = (IF FLess(Float(10), mean) THEN "degrading"
                              ELSE IF FLess(mean, Float(-10)) THEN "improving"
                              ELSE "stable")
        /\ baseCall.deviation = (IF FLess(mean, Float(0)) THEN FSub(Float(0), mean)
                                 ELSE mean)

NotCompared ==
    /\ baseCall.deviation = Float(0)
    /\ baseCall.status = "stable"

(***************************************************************************)
(* C18 as stated: with 10 or more cpu_steal and io_latency samples taken   *)
(* together in the baseline window the deviations of steal, sequential     *)
(* latency and load are computed, averaged and classified; with fewer than *)
(* 10 taken together the result is (0, "stable").                          *)
(***************************************************************************)
C18_TenCombinedSamples ==
    baseCall.op = "calculateBaselineDeviation" =>
        LET nSteal == Cardinality(BaselineSamples(MetricTypeCPUSteal, baseCall.okSteal))
            nIO    == Cardinality(BaselineSamples(MetricTypeIOLatency, baseCall.okIO))
        IN  IF nSteal + nIO >= 10 THEN ComparedAsClaimed ELSE NotCompared

(***************************************************************************)
(* C18, amended: the comparison needs 10 or more cpu_steal samples or 10   *)
(* or more io_latency samples in the baseline window; the two counts are   *)
(* not added.  With 10 of either type the deviations are computed,         *)
(* averaged and classified as stated; with fewer than 10 of each the       *)
(* result is (0, "stable").                                                *)
(***************************************************************************)
C18_TenSamplesOfEitherType ==
    baseCall.op = "calculateBaselineDeviation" =>
        LET nSteal == Cardinality(BaselineSamples(MetricTypeCPUSteal, baseCall.okSteal))
            nIO    == Cardinality(BaselineSamples(MetricTypeIOLatency, baseCall.okIO))
        IN  IF nSteal >= 10 \/ nIO >= 10 THEN ComparedAsClaimed ELSE NotCompared

C18_Witness ==
    /\ baseCall.op = "calculateBaselineDeviation"
    /\ baseCall.okSteal /\ baseCall.okIO /\ baseCall.okLoad
    /\ Cardinality(BaselineSamples(MetricTypeCPUSteal, TRUE)) = 10
    /\ Cardinality(BaselineSamples(MetricTypeIOLatency, TRUE)) = 9
    /\ Cardinality(BaselineSamples(MetricTypeCPULoad, TRUE)) = 2
    /\ baseCall.stats.CPUStealAvg = Float(5)
    /\ baseCall.stats.IOLatencyAvg = Float(0)
    /\ baseCall.status = "degrading"
    /\ FLess(Float(10), baseCall.deviation)
(***************************************************************************)
(* C14: for a window whose cpu_steal average is 10 and whose normalized    *)
(* load average is 0.3, the steal score before the boost is 40, the boost  *)
(* is 1 + (0.7 - 0.3) * 0.3 = 1.12, the adjusted steal score is 40 / 1.12  *)
(* (35.7 to one decimal), and the steal dimension adds 35% of it, 12.5,    *)
(* to the total score.                                                     *)
(***************************************************************************)
OtherDimensions(o) ==
    FAdd(FMul(o.cpuIoWaitScore, Rat(10, 100)),
    FAdd(FMul(o.cpuStabilityScore, Rat(10, 100)),
    FAdd(FMul(o.ioScore, Rat(15, 100)),
    FAdd(FMul(o.randomIOScore, Rat(10, 100)),
    FAdd(FMul(o.diskBusyScore, Rat(5, 100)),
    FAdd(FMul(o.memoryScore, Rat(10, 100)),
         FMul(o.baselineScore, Rat(5, 100))))))))

C15_QueryErrorsPropagate ==
    (analysis.op = "AnalyzePeriod" /\ analysis.failed # {}) => analysis.err

(***************************************************************************)
(* What AnalyzePeriod returns when the cpu_steal query fails over a store  *)
(* that holds steal samples: no error, and the steal score of an empty     *)
(* window.                                                                 *)
(***************************************************************************)
C15_ScoredAsIfNoSamples ==
    /\ analysis.op = "AnalyzePeriod"
    /\ analysis.failed = {MetricTypeCPUSteal}
    /\ SelectRange(rows, MetricTypeCPUSteal, AnalyzeStart, AnalyzeEnd) # {}
    /\ ~analysis.err
    /\ analysis.stats.CPUStealAvg = Float(0)
    /\ analysis.scores.cpuStealScore = Float(100)

(***************************************************************************)
(* C16: absence of samples is not an error.  For every subset of the       *)
(* metric types without samples in the window, AnalyzePeriod returns no    *)
(* error, the statistics of the types without samples are zero, the        *)
(* statistics of the other types are those of their samples, and the       *)
(* dimension scores, the total score and the risk level are computed from  *)
(* these statistics.                                                       *)
(***************************************************************************)
TypesInWindow ==
    {r.metric_type : r \in {q \in rows : /\ q.timestamp >= Unix(AnalyzeStart)
                                         /\ q.timestamp <= Unix(AnalyzeEnd)}}

IfPresent(present, metricType, value) ==
    IF metricType \in present THEN value ELSE Float(0)

ExpectedStats(present, storageType, memoryAvailable) ==
    [Period |-> "daily", StartTime |-> AnalyzeStart, EndTime |-> AnalyzeEnd,
     CPUStealAvg |-> IfPresent(present, "cpu_steal", Float(10)),
     CPUStealMax |-> IfPresent(present, "cpu_steal", Float(12)),
     CPUStealP95 |-> IfPresent(present, "cpu_steal", Float(12)),
     CPUIoWaitAvg |-> IfPresent(present, "cpu_iowait", Float(5)),
     CPUIoWaitMax |-> IfPresent(present, "cpu_iowait", Float(6)),
     CPUIoWaitP95 |-> IfPresent(present, "cpu_iowait", Float(6)),
     CPUBenchAvg |-> IfPresent(present, "cpu_bench", Float(100)),
     CPUBenchCV |-> IfPresent(present, "cpu_bench", Rat(1, 100)),
     IOLatencyAvg |-> IfPresent(present, "io_latency", Float(50)),
     IOLatencyP95 |-> IfPresent(present, "io_latency", Float(60)),
     IOLatencyP99 |-> IfPresent(present, "io_latency", Float(60)),
     RandomIOWriteAvg |-> IfPresent(present, "random_io", Float(90)),
     RandomIOReadAvg |-> IfPresent(present, "random_io", Float(45)),
     RandomIOP95 |-> IfPresent(present, "random_io", Float(100)),
     DiskBusyPercent |-> Float(0),
     MemoryAvailablePercent |-> IfPresent(present, "memory", Float(memoryAvailable)),
     CPULoadAvg |-> IfPresent(present, "cpu_load", Rat(3, 10)),
     CPULoadMax |-> IfPresent(present, "cpu_load", Rat(2, 5)),
     BaselineDeviation |-> Float(0), BaselineStatus |-> "stable",
     StorageType |-> storageType]

C17_ReportWithoutNarrative ==
    (/\ reportCall.op \in {"generateReport", "sendScheduledReport"}
     /\ reportCall.aiCalled
     /\ (reportCall.ai.err \/ reportCall.ai.text = "")) =>
        /\ reportCall.sent
        /\ analysis.op = "AnalyzePeriod"
        /\ reportCall.sentStats = analysis.stats
        /\ reportCall.sentText = ""

C17_Witness ==
    /\ reportCall.op = "generateReport"
    /\ reportCall.reportType = "daily"
    /\ reportCall.aiCalled
    /\ reportCall.ai.err
    /\ reportCall.sent
    /\ reportCall.sentStats.CPUStealAvg = Float(10)
    /\ reportCall.exit = "done"

SumOfFields(s) ==
    s.User + s.Nice + s.System + s.Idle + s.IOWait + s.IRQ + s.SoftIRQ
        + s.Steal + s.Guest + s.GuestNice

PercentOfDelta(field, from, to) ==
    IF SumOfFields(to) = SumOfFields(from)
       THEN Float(0)
       ELSE Rat(100 * (to[field] - from[field]), SumOfFields(to) - SumOfFields(from))

C21_LastStatsIsLastRead ==
    [][cpuCall'.op = "Collect" =>
          LET reads == cpuCall'.reads
          IN  /\ lastStats' = (IF reads = <<>>
                                 THEN lastStats
                                 ELSE SomeStats(reads[Len(reads)]))
              /\ (cpuCall'.first /\ ~cpuCall'.err) =>
                    /\ Len(reads) = 2
                    /\ cpuCall'.usage.StealPercent
                          = PercentOfDelta("Steal", reads[1], reads[2])
                    /\ cpuCall'.usage.IOWaitPercent
                          = PercentOfDelta("IOWait", reads[1], reads[2])
                    /\ lastStats' = SomeStats(reads[2])]_vars

C21_Witness ==
    /\ cpuCall.op = "Collect"
    /\ cpuCall.first
    /\ ~cpuCall.err
    /\ Len(cpuCall.reads) = 2
    /\ cpuCall.reads[1] # cpuCall.reads[2]
    /\ cpuCall.usage.StealPercent = Float(100)
    /\ lastStats = SomeStats(cpuCall.reads[2])
    /\ procStat.Steal = cpuCall.reads[2].Steal

(***************************************************************************)
(* C22: in daemon mode the previous-sample state of the CPU sampler is     *)
(* never used by two callers at once: at most one call of cpu.Collect is   *)
(* in progress, it is made by the goroutine of runDaemon from collectAll   *)
(* or from the cpu-steal case, each case body ends before the next event   *)
(* is taken, and no step of a report goroutine touches the collector.      *)
(***************************************************************************)
C22_OneCollectorCaller ==
    [][/\ loop'.collecting <= 1
       /\ loop'.collecting = 1 => loop'.at \in {"collectAll", "cpuSteal"}
       /\ (loop'.at # loop.at /\ loop.at # "select") => loop'.at \in {"select", "returned"}
       /\ (lastStats' # lastStats \/ cpuCall' # cpuCall) =>
             /\ loop.collecting = 1
             /\ loop'.collecting = 0
             /\ goroutines' = goroutines]_vars

C22_Witness ==
    /\ loop.at = "cpuSteal"
    /\ loop.collecting = 1
    /\ \E g \in goroutines : g.at = "SendReport" /\ g.tries = 1
    /\ ~lastStats.nil

(***************************************************************************)
(* C23: a scheduled report runs as a unit of work of its own.  While its   *)
(* analysis, its AI call or its delivery with its retries is in progress,  *)
(* however long that takes, the loop of the daemon goes on serving the     *)
(* sampling ticks: a sampling tick that is waiting while a report is in    *)
(* flight is served (unless the daemon is told to stop first).             *)
(***************************************************************************)
C23_LoopServesTicksDuringReport ==
    \A tk \in Samplers :
        (tk \in due /\ Unfinished # {}) ~> (tk \notin due \/ pc = "exited")

C23_Witness ==
    /\ pc = "loop"
    /\ loop.at = "ioTest"
    /\ \E g \in Unfinished : g.at = "SendReport" /\ g.tries = 2
    /\ \E r \in rows : r.timestamp = Unix(now) /\ r.metric_type = MetricTypeCPUSteal
                          /\ now > 0

(***************************************************************************)
(* C24: on a termination signal the periodic tasks take no tick any more   *)
(* (nothing is collected or saved once the signal has been handled), and   *)
(* every operation in flight at that moment, a report started concurrently *)
(* and still being analysed or delivered included, completes before the    *)
(* process exits.                                                          *)
(***************************************************************************)
C24_InFlightWorkCompletes ==
    [][pc' = "exited" =>
          /\ pc = "exited" => UNCHANGED <<rows, nextId, lastStats>>
          /\ \A g \in goroutines' : g.at = "done"]_vars

(***************************************************************************)
(* C25: a collector that fails in a handler (collectAll at start-up, or a  *)
(* sampling ticker case) leaves no sample of its metric types for that     *)
(* run of the handler; the other collectors of the handler each save       *)
(* exactly one sample per metric type, stamped with the time of the run    *)
(* (nothing is collected twice within the run); and what a run saves       *)
(* depends on the failures of that run only, whatever failed before.       *)
(***************************************************************************)
Ran(handler) ==
    IF handler = "collectAll"
       THEN pc = "start" /\ pc' = "loop"
       ELSE handler \in due /\ handler \notin due'

C25_FailedProbeSavesNothing ==
    [][\A h \in Handlers :
          Ran(h) =>
              LET new == rows' \ rows
                  types == UNION {TypesOf(p) : p \in ProbesOf(h) \ logged'}
              IN  /\ logged' \subseteq ProbesOf(h)
                  /\ {r.metric_type : r \in new} = types
                  /\ Cardinality(new) = Cardinality(types)
                  /\ \A r \in new : r.timestamp = Unix(now)]_vars

SavedAt(metricType, t) ==
    {r \in rows : r.metric_type = metricType /\ [id |-> r.id, at |-> t] \in born}

C25_Witness ==
    /\ now = 2
    /\ logged = {}
    /\ SavedAt(MetricTypeCPUSteal, 1) = {}
    /\ SavedAt(MetricTypeCPULoad, 1) # {}
    /\ SavedAt(MetricTypeCPUSteal, 2) # {}

(***************************************************************************)
(* C26: the statistics CollectDiskStats returns are the sums, over exactly *)
(* the whole-disk rows of the table, of the operation counts, the byte     *)
(* counts (sectors * 512), the I/O time and the weighted I/O time: no      *)
(* virtual row and no partition row is counted, and every whole-disk row   *)
(* is counted once.                                                        *)
(***************************************************************************)
WholeDisks(table) == {row \in table : row.kind = "disk"}

C26_SumsWholeDisksOnly ==
    diskCall.op = "CollectDiskStats" =>
        diskCall.stats = SumDiskStats(WholeDisks(diskCall.table))

(***************************************************************************)
(* C27: selectTestDir returns the first of /tmp, /var/tmp that exists and  *)
(* is not rejected, and the current directory when there is none; a        *)
(* candidate is rejected exactly when, of the mount points that are the    *)
(* candidate or a directory above it (the root included), the longest one  *)
(* is mounted with a memory-backed filesystem.                             *)
(***************************************************************************)
IsAtOrAbove(mountPoint, path) ==
    \/ mountPoint = Slash
    \/ mountPoint = path
    \/ HasPrefix(path, mountPoint \o Slash)

LongestMatch(path, mounts) ==
    CHOOSE line \in mounts :
        /\ IsAtOrAbove(line.mountPoint, path)
        /\ \A other \in mounts :
              IsAtOrAbove(other.mountPoint, path) =>
                  Len(other.mountPoint) <= Len(line.mountPoint)

OnMemory(path, mounts) == LongestMatch(path, mounts).fsType = "tmpfs"

Accepted(mounts, exists) ==
    {i \in 1..2 : candidates[i] \in exists /\ ~OnMemory(candidates[i], mounts)}

C27_RejectsByLongestMount ==
    diskCall.op = "selectTestDir" =>
        LET ok == Accepted(diskCall.mounts, diskCall.exists)
        IN  diskCall.dir = IF ok = {}
                              THEN Dot
                              ELSE candidates[CHOOSE i \in ok : \A k \in ok : i <= k]

(***************************************************************************)
(* C28: the daemon runs the random-I/O test on its I/O test schedule:      *)
(* every I/O test tick whose collectors all succeed saves a new random_io  *)
(* sample, so that a window of the analyzer holds one sample per tick that *)
(* fell in it.                                                             *)
(***************************************************************************)
C28_RandomIOOnEveryIOTick ==
    [][(Ran("ioTest") /\ logged' = {}) =>
          \E r \in rows' \ rows : r.metric_type = MetricTypeRandomIO]_vars

(***************************************************************************)
(* C29: when a report goroutine of the daemon analyses a window holding at *)
(* least two disk_stats samples saved by the daemon, the disk-busy score   *)
(* follows the growth of the cumulative I/O time between the first and the *)
(* last of them: 0 when it grew by at least 85% of the time elapsed        *)
(* between them, 100 when it grew by less than 30%.                        *)
(***************************************************************************)
DiskStatsInWindow(end) ==
    SelectRange(rows, MetricTypeDiskStats, ReportStart("daily", end, 30), end)

GrowthPercent(window) ==
    LET first == CHOOSE r \in window : \A o \in window : r.timestamp <= o.timestamp
        last == CHOOSE r \in window : \A o \in window : o.timestamp <= r.timestamp
    IN  FDiv(FMul(Float(100), FSub(last.value, first.value)),
             Float((last.timestamp - first.timestamp) * MsPerSec))

Spans(window) ==
    \E r \in window, o \in window : r.timestamp < o.timestamp

C29_DiskBusyFromCollectedSamples ==
    [][(\E g \in goroutines' \ goroutines : g.at = "Analyze") =>
          LET window == DiskStatsInWindow(now)
          IN  (Cardinality(window) >= 2 /\ Spans(window)) =>
                 /\ FLeq(Float(85), GrowthPercent(window)) =>
                        analysis'.scores.diskBusyScore = Float(0)
                 /\ FLess(GrowthPercent(window), Float(30)) =>
                        analysis'.scores.diskBusyScore = Float(100)]_vars

(***************************************************************************)
(* C30: a report check starts a report of a type exactly when the type is  *)
(* enabled, the time of the tick matches the type's schedule, and this run *)
(* of the daemon has not already started a report of the type in the same  *)
(* calendar day (daily, weekly) or the same calendar month (monthly).      *)
(***************************************************************************)
ScheduleMatches(kind, cfg, t) ==
    CASE kind = "daily" -> DailyDue(cfg, t)
      [] kind = "weekly" -> WeeklyDue(cfg, t)
      [] kind = "monthly" -> MonthlyDue(cfg, t)

SentInPeriod(kind, sc) ==
    \E t \in sc.sent[kind] :
        IF kind = "monthly"
           THEN MonthCount(t) = MonthCount(sc.now)
           ELSE DayCount(t) = DayCount(sc.now)

C30_DueReportIsStarted ==
    [][(sched.tick /\ ~sched'.tick) =>
          \A kind \in ReportKinds :
              kind \in sched'.started <=>
                  (ScheduleMatches(kind, sched.cfg, sched.now) /\ ~SentInPeriod(kind, sched))]_vars

====
